---- MODULE Spec2Model ----
(***************************************************************************)
(* Collaboration server of backend/src/models.ts: the room registry        *)
(* (rooms, pendingRooms, getOrCreateRoom), the per-room persist scheduler  *)
(* (scheduleProjectPersist, flushProjectPersist), the socket connection    *)
(* handler (accept, SYNC gate, close -> removeSocketFromRoom), the REST    *)
(* permissions / approve handlers and shutdown.                            *)
(*                                                                         *)
(* One step of the model is one turn of the Node event loop: a handler     *)
(* runs, together with the promise continuations it makes runnable, up to  *)
(* the next await on I/O (loadProjectState, persistProjectState,           *)
(* setProjectPermission) or the next timer / socket event.                 *)
(* One room id is modelled; Room objects constructed for it over time are  *)
(* the members of Objs.  Sockets are connection slots: NSockets bounds the *)
(* sockets that exist at the same time, and a slot whose socket has been   *)
(* closed and is referenced by no Room stands for a new socket afterwards. *)
(***************************************************************************)
EXTENDS Integers, Sequences, FiniteSets, TLC

MaxRooms == 2
NSockets == 2
MaxRestWaiting == 1
MaxClientIds == 1
MaxUpdates == 1
MaxTextLen == 3
MaxCallers == 3

Objs == 1..MaxRooms
Sockets == 1..NSockets
NoRoom == 0
NoSocket == 0
\* presence client ids that AWARENESS frames announce
ClientIds == 1..MaxClientIds
\* doc.clientID of the Room's own document: `new Awareness(doc)` enters it in
\* the presence registry with the state {} and awareness.destroy() removes it
LocalClientId == 0

Roles == {"viewer", "editor", "admin"}
NoRole == "none"
Users == {"ua", "ue", "uv"}
\* the token each socket presents: editors and viewers alternate
userOf(s) == IF s % 2 = 1 THEN "ue" ELSE "uv"
RestUsers == {"ua", "uv"}
Admins == {"ua"}
PermInputs == {<<"uv", "admin">>, <<"ue", "viewer">>}
\* permission changes of one user in both directions
PermChanges == {<<"ue", "viewer">>, <<"ue", "editor">>}

\* the username claim of a user's token
usernameOf(u) == IF u = "ua" THEN "admin" ELSE IF u = "ue" THEN "editor" ELSE "viewer"

tokenRole(u) == IF u = "ua" THEN "admin" ELSE IF u = "ue" THEN "editor" ELSE "viewer"

VARIABLES room, rooms, pendingRooms, sock, socketContexts,
          store, permWrites, shut, last, out, resp, observe, closeCode, chatOut,
          db, walk, trip, reg

vars == <<room, rooms, pendingRooms, sock, socketContexts,
          store, permWrites, shut, last, out, resp, observe, closeCode, chatOut,
          db, walk, trip, reg>>

\* the state of the server proper
serverVars == <<room, rooms, pendingRooms, sock, socketContexts,
                store, permWrites, shut, last, out, resp, observe, closeCode, chatOut>>

----------------------------------------------------------------------------
(* Strings *)

Min(S) == CHOOSE x \in S : \A y \in S : x <= y

\* the whitespace String.prototype.trim removes
WhiteSpace == {" "}

RECURSIVE TrimStart(_)
TrimStart(x) == IF x # <<>> /\ Head(x) \in WhiteSpace THEN TrimStart(Tail(x)) ELSE x

RECURSIVE TrimEnd(_)
TrimEnd(x) ==
  IF x # <<>> /\ x[Len(x)] \in WhiteSpace THEN TrimEnd(SubSeq(x, 1, Len(x) - 1)) ELSE x

\* String.prototype.trim
trim(x) == TrimEnd(TrimStart(x))

----------------------------------------------------------------------------
(* Paths of files in the tree *)

\* node ids of 'file-tree:nodes' as character sequences; the empty string
\* is a string and so a possible id
NodeIds == {<<>>, <<"a">>, <<"f">>}

\* node names: plain, with a blank and a reserved character, blank only
NodeNames == {<<"s">>, <<" ", "/">>, <<" ">>}

\* characters that sanitizePathSegment replaces by '_'
ReservedChars == {"\\", "/", ":", "*", "?", "\"", "<", ">", "|"}

\* a node of the tree: name is a string or something else; parentId is a
\* string, null, or something else (undefined, a number)
AbsentNode == [present |-> FALSE, nameIsString |-> FALSE, name |-> <<>>,
               parentKind |-> "null", parentId |-> <<>>]
\* a parent id for which the map holds no node
DanglingId == <<"x">>
ParentIds == NodeIds \cup {DanglingId}

\* treeNodes.get(id): the node, or undefined
nodeOf(tree, id) == IF id \in DOMAIN tree THEN tree[id] ELSE AbsentNode

TreeNodes ==
  {AbsentNode}
  \cup {[present |-> TRUE, nameIsString |-> TRUE, name |-> n, parentKind |-> "string",
         parentId |-> q] : n \in NodeNames, q \in ParentIds}
  \cup {[present |-> TRUE, nameIsString |-> TRUE, name |-> n, parentKind |-> k,
         parentId |-> <<>>] : n \in NodeNames, k \in {"null", "other"}}
  \cup {[present |-> TRUE, nameIsString |-> FALSE, name |-> <<>>, parentKind |-> "string",
         parentId |-> q] : q \in ParentIds}
  \cup {[present |-> TRUE, nameIsString |-> FALSE, name |-> <<>>, parentKind |-> k,
         parentId |-> <<>>] : k \in {"null", "other"}}

Untitled == <<"u", "n", "t", "i", "t", "l", "e", "d">>

\* segment.replace(/[\\/:*?"<>|]/g, '_').trim(), 'untitled' when empty
sanitizePathSegment(segment) ==
  LET cleaned == trim([i \in 1..Len(segment) |->
                         IF segment[i] \in ReservedChars THEN "_" ELSE segment[i]])
  IN IF Len(cleaned) > 0 THEN cleaned ELSE Untitled

Reverse(seq) == [i \in 1..Len(seq) |-> seq[Len(seq) + 1 - i]]

\* Array.prototype.join('/')
RECURSIVE Join(_)
Join(segs) ==
  IF segs = <<>> THEN <<>>
  ELSE IF Len(segs) = 1 THEN segs[1]
  ELSE segs[1] \o <<"/">> \o Join(Tail(segs))

NoWalk == [pc |-> "none"]

\* buildFilePathFromTree at its first line
startWalk(tree, fileId) ==
  [pc |-> "loop", tree |-> tree, fileId |-> fileId, currentId |-> fileId,
   visited |-> {}, pathSegments |-> <<>>, path |-> <<>>, stored |-> <<>>]

\* after the loop: null without segments, else the reversed segments joined
endWalk(w) ==
  IF Len(w.pathSegments) = 0 THEN [w EXCEPT !.pc = "null"]
  ELSE [w EXCEPT !.pc = "path", !.path = Join(Reverse(w.pathSegments))]

\* the loop with every missing node taken as "no path"
loopWalk_missIsNull(w) ==
  IF w.currentId = <<>> THEN endWalk(w)
  ELSE IF w.currentId \in w.visited THEN [w EXCEPT !.pc = "null"]
  ELSE LET w1 == [w EXCEPT !.visited = @ \cup {w.currentId}]
           node == nodeOf(w.tree, w.currentId)
       IN IF ~node.present THEN [w1 EXCEPT !.pc = "null"]
          ELSE IF ~node.nameIsString THEN [w1 EXCEPT !.pc = "null"]
          ELSE LET w2 == [w1 EXCEPT !.pathSegments = Append(@, sanitizePathSegment(node.name))]
               IN IF node.parentKind = "string" THEN [w2 EXCEPT !.currentId = node.parentId]
                  ELSE IF node.parentKind = "null" THEN endWalk(w2)
                  ELSE [w2 EXCEPT !.pc = "null"]

\* the loop without its visited set
loopWalk_noVisited(w) ==
  IF w.currentId = <<>> THEN endWalk(w)
  ELSE LET node == nodeOf(w.tree, w.currentId) IN
       IF ~node.present
         THEN IF Len(w.pathSegments) = 0 THEN [w EXCEPT !.pc = "null"] ELSE endWalk(w)
       ELSE IF ~node.nameIsString THEN [w EXCEPT !.pc = "null"]
       ELSE LET w2 == [w EXCEPT !.pathSegments = Append(@, sanitizePathSegment(node.name))]
            IN IF node.parentKind = "string" THEN [w2 EXCEPT !.currentId = node.parentId]
               ELSE IF node.parentKind = "null" THEN endWalk(w2)
               ELSE [w2 EXCEPT !.pc = "null"]

\* one test of `while (currentId)` and one pass through the loop body
loopWalk(w) ==
  IF w.currentId = <<>> THEN endWalk(w)
  ELSE IF w.currentId \in w.visited THEN [w EXCEPT !.pc = "null"]
  ELSE LET w1 == [w EXCEPT !.visited = @ \cup {w.currentId}]
           node == nodeOf(w.tree, w.currentId)
       IN IF ~node.present
            THEN IF Len(w1.pathSegments) = 0 THEN [w1 EXCEPT !.pc = "null"] ELSE endWalk(w1)
          ELSE IF ~node.nameIsString THEN [w1 EXCEPT !.pc = "null"]
          ELSE LET w2 == [w1 EXCEPT !.pathSegments = Append(@, sanitizePathSegment(node.name))]
               IN IF node.parentKind = "string" THEN [w2 EXCEPT !.currentId = node.parentId]
                  ELSE IF node.parentKind = "null" THEN endWalk(w2)
                  ELSE [w2 EXCEPT !.pc = "null"]

\* persistProjectState: treePath ?? `files/${sanitizePathSegment(fileId)}.txt`
rowPath(w) ==
  IF w.pc = "null"
    THEN <<"f", "i", "l", "e", "s", "/">> \o sanitizePathSegment(w.fileId)
         \o <<".", "t", "x", "t">>
  ELSE w.path

\* one pass of the loop of buildFilePathFromTree
WalkLoop ==
  /\ walk.pc = "loop"
  /\ Len(walk.pathSegments) <= Cardinality(NodeIds)
  /\ walk' = loopWalk(walk)
  /\ UNCHANGED <<serverVars, db, trip, reg>>

\* persistProjectState pushes the row of the file with its path
WalkStore ==
  /\ walk.pc \in {"null", "path"}
  /\ walk' = [walk EXCEPT !.pc = "stored", !.path = IF walk.pc = "null" THEN <<>> ELSE @,
                          !.stored = rowPath(walk)]
  /\ UNCHANGED <<serverVars, db, trip, reg>>

----------------------------------------------------------------------------
(* What persistProjectState writes and loadProjectState reads back *)

NoTrip == [pc |-> "none"]

\* a value whose typeof is not 'string'
NotAString == "<not a string>"

\* ids of the files of 'editor:files' and their texts
FileIds == {<<"a">>, <<"f">>}
Contents == {"", "x"}
SuggestionIds == {"s1"}
\* what a field of a suggestion entry may hold
FieldValues == {"a", "", NotAString}
VoteUsers == {"u1"}
\* a vote is a number or some other value
VoteValues == {[isNumber |-> TRUE, value |-> 1], [isNumber |-> FALSE, value |-> 0]}
\* the 'votes' field: a Y.Map of votes, or something else
NoYMap == [isYMap |-> FALSE, entries |-> <<>>]
VotesValues ==
  {NoYMap} \cup
  {[isYMap |-> TRUE, entries |-> e] : e \in UNION {[U -> VoteValues] : U \in SUBSET VoteUsers}}
SuggestionEntries ==
  [fileId : FieldValues, authorId : FieldValues, text : FieldValues,
   votes : VotesValues, authorName : {"n"}]

NoTree == [id \in NodeIds |-> AbsentNode]
\* the trees of a doc: no node at all, or the file 'a' at the root
DocTrees ==
  {NoTree,
   [NoTree EXCEPT ![<<"a">>] = [present |-> TRUE, nameIsString |-> TRUE,
                                  name |-> <<"s">>, parentKind |-> "null",
                                  parentId |-> <<>>]]}
Docs ==
  [files : UNION {[F -> Contents] : F \in SUBSET FileIds},
   tree : DocTrees,
   suggestions : UNION {[S -> SuggestionEntries] : S \in SUBSET SuggestionIds}]

\* rows left in the store by an earlier flush of the project
EmptyStore == [files |-> <<>>, suggestions |-> <<>>, users |-> <<>>]
StaleFiles ==
  [id \in {<<"f">>} |-> [path |-> <<"o", "l", "d">>, content |-> "old"]]
StaleSuggestions ==
  [id \in {"s1"} |-> [file_id |-> "a", creator_id |-> "a", text |-> "old",
                      votes |-> [u \in VoteUsers |-> 1]]]
Stores ==
  {[EmptyStore EXCEPT !.files = f, !.suggestions = s] :
     f \in {<<>>, StaleFiles}, s \in {<<>>, StaleSuggestions}}

RECURSIVE runWalk(_)
runWalk(w) == IF w.pc = "loop" THEN runWalk(loopWalk(w)) ELSE w

\* buildFilePathFromTree run to its end, then treePath ?? fallback
filePath(fileId, tree) == rowPath(runWalk(startWalk(tree, fileId)))

\* persistProjectState: one row per entry of 'editor:files'
fileRows(doc) ==
  [id \in DOMAIN doc.files |->
     [path |-> filePath(id, doc.tree), content |-> doc.files[id]]]

\* bulkWrite of upserts, then deleteMany of the rows whose id is $nin the list
upsertThenPrune(old, rows) ==
  [id \in DOMAIN rows |-> rows[id]]

\* the entries persistProjectState does not skip
persistable(entry) ==
  /\ entry.fileId # NotAString
  /\ entry.authorId # NotAString
  /\ entry.text # NotAString
  /\ entry.votes.isYMap

\* the votes that are numbers
numberVotes(votes) ==
  [u \in {v \in DOMAIN votes.entries : votes.entries[v].isNumber} |->
     votes.entries[u].value]

suggestionRows(doc) ==
  [id \in {s \in DOMAIN doc.suggestions : persistable(doc.suggestions[s])} |->
     LET raw == doc.suggestions[id] IN
     [file_id |-> raw.fileId, creator_id |-> raw.authorId, text |-> raw.text,
      votes |-> numberVotes(raw.votes),
      authorName |-> IF raw.authorName # NotAString THEN raw.authorName
                     ELSE raw.authorId]]

\* the $set of a suggestion row: the author name goes to the users instead
storedSuggestion(row) ==
  [file_id |-> row.file_id, creator_id |-> row.creator_id, text |-> row.text,
   votes |-> row.votes]

\* UserModel.bulkWrite: the user of each row gets the name of the author
upsertUsers(users, rows) ==
  LET ids == {rows[s].creator_id : s \in DOMAIN rows} IN
  [u \in ids \cup DOMAIN users |->
     IF u \in ids THEN rows[CHOOSE s \in DOMAIN rows : rows[s].creator_id = u].authorName
     ELSE users[u]]

\* path.split('/').filter(part => part.length > 0)
RECURSIVE splitPath(_)
splitPath(path) ==
  LET cuts == {i \in 1..Len(path) : path[i] = "/"} IN
  IF cuts = {} THEN (IF path = <<>> THEN <<>> ELSE <<path>>)
  ELSE LET i == Min(cuts)
           head == SubSeq(path, 1, i - 1)
           rest == splitPath(SubSeq(path, i + 1, Len(path)))
       IN IF head = <<>> THEN rest ELSE <<head>> \o rest

\* `folder:${folderParts.slice(0, index + 1).join('/')}`
folderIdOf(parts, n) == <<"folder:">> \o Join(SubSeq(parts, 1, n))

\* the node loadProjectState makes for a file: its name is the last part of
\* the path, its parent the folder of the parts before it
loadedNode(fileId, path) ==
  LET parts == splitPath(path) IN
  [name |-> IF Len(parts) > 0 THEN parts[Len(parts)] ELSE fileId,
   parentKind |-> IF Len(parts) > 1 THEN "string" ELSE "null",
   parentId |-> IF Len(parts) > 1 THEN folderIdOf(parts, Len(parts) - 1) ELSE <<>>]

\* the folder nodes loadProjectState makes for the parts before the last
loadedFolders(path) ==
  LET parts == splitPath(path) IN
  {[id |-> folderIdOf(parts, n), name |-> parts[n],
    parentKind |-> IF n > 1 THEN "string" ELSE "null",
    parentId |-> IF n > 1 THEN folderIdOf(parts, n - 1) ELSE <<>>] :
     n \in 1..(Len(parts) - 1)}

\* creatorId.slice(0, 8): the ids of the model are shorter than 8
slice8(s) == s

\* the suggestion rows loadProjectState keeps: none of the three is falsy
loadable(row) == row.file_id # "" /\ row.creator_id # "" /\ row.text # ""

\* loadProjectState fills a doc from the rows; votes come back only when the
\* query returns them as a Map
loadProjectState(st, leanMaps) ==
  [files |-> [id \in DOMAIN st.files |-> st.files[id].content],
   nodes |-> [id \in DOMAIN st.files |-> loadedNode(id, st.files[id].path)],
   folders |-> UNION {loadedFolders(st.files[id].path) : id \in DOMAIN st.files},
   suggestions |->
     [id \in {s \in DOMAIN st.suggestions : loadable(st.suggestions[s])} |->
        LET row == st.suggestions[id] IN
        [fileId |-> row.file_id, startLine |-> 1, endLine |-> 1, text |-> row.text,
         authorId |-> row.creator_id, authorName |-> slice8(row.creator_id),
         votes |-> [isYMap |-> TRUE,
                    entries |-> IF leanMaps
                                  THEN [u \in DOMAIN row.votes |->
                                          [isNumber |-> TRUE, value |-> row.votes[u]]]
                                ELSE <<>>]]]]

\* persistProjectState up to FileModel.deleteMany
TripPersistFiles ==
  /\ trip.pc = "doc"
  /\ trip' = [trip EXCEPT !.pc = "files",
                          !.store.files = upsertThenPrune(@, fileRows(trip.doc))]
  /\ UNCHANGED <<serverVars, db, walk, reg>>

\* persistProjectState from the suggestion rows to SuggestionModel.deleteMany
TripPersistSuggestions ==
  /\ trip.pc = "files"
  /\ LET rows == suggestionRows(trip.doc) IN
     trip' = [trip EXCEPT
       !.pc = "persisted",
       !.store.suggestions =
          upsertThenPrune(@, [id \in DOMAIN rows |-> storedSuggestion(rows[id])]),
       !.store.users = upsertUsers(@, rows)]
  /\ UNCHANGED <<serverVars, db, walk, reg>>

\* loadProjectState into a fresh doc
TripLoad ==
  /\ trip.pc = "persisted"
  /\ trip' = [trip EXCEPT !.pc = "loaded",
                          !.loaded = loadProjectState(trip.store, trip.leanMaps)]
  /\ UNCHANGED <<serverVars, db, walk, reg>>

----------------------------------------------------------------------------
(* The store connection *)

\* process.env.MONGODB_URI: unset, empty, or the address of a store
NoUri == "<unset>"
MongoUris == {NoUri, "", "mongodb://store"}

Callers == 1..MaxCallers
\* the exported functions that begin with `await ensureDbConnection()`
DbFunctions == {"ensureDbConnection", "loadProjectState", "persistProjectState",
                "setProjectPermission"}

IdleCaller == [pc |-> "idle", fn |-> "", connected |-> FALSE, ops |-> 0]

\* dbConnectionPromise: "null", "pending", or settled with true or false;
\* connects counts the mongoose.connect calls of the process
IdleDb == [mongoUri |-> NoUri, dbConnectionPromise |-> "null", connects |-> 0,
           caller |-> [c \in Callers |-> IdleCaller]]

\* a cache of the settled result only: nothing is remembered while the
\* first attempt is pending
ensureDbConnection_cacheSettled(d) ==
  IF d.dbConnectionPromise \in {"true", "false"} THEN d
  ELSE IF d.mongoUri = NoUri \/ d.mongoUri = ""
    THEN [d EXCEPT !.dbConnectionPromise = "false"]
  ELSE [d EXCEPT !.dbConnectionPromise = "pending", !.connects = @ + 1]

\* ensureDbConnection up to its return: the cached promise if there is one,
\* a settled false without a URI, else one mongoose.connect
ensureDbConnection(d) ==
  IF d.dbConnectionPromise # "null" THEN d
  ELSE IF d.mongoUri = NoUri \/ d.mongoUri = ""
    THEN [d EXCEPT !.dbConnectionPromise = "false"]
  ELSE [d EXCEPT !.dbConnectionPromise = "pending", !.connects = @ + 1]

\* a function of persistence.ts is called and reaches its first await
DbCall(c, fn) ==
  /\ db.caller[c].pc = "idle"
  /\ db.connects < MaxCallers
  /\ db' = [ensureDbConnection(db) EXCEPT
               !.caller[c] = [pc |-> "awaiting", fn |-> fn, connected |-> FALSE, ops |-> 0]]
  /\ UNCHANGED <<serverVars, walk, trip, reg>>

\* mongoose.connect settles: .then(() => true) or .catch(() => false)
DbConnectSettles(ok) ==
  /\ db.dbConnectionPromise = "pending"
  /\ db' = [db EXCEPT !.dbConnectionPromise = IF ok THEN "true" ELSE "false"]
  /\ UNCHANGED <<serverVars, walk, trip, reg>>

\* `const connected = await ensureDbConnection()` continues: without a
\* connection the function returns at once, with one it goes on to the store
DbResume(c) ==
  /\ db.caller[c].pc = "awaiting"
  /\ db.dbConnectionPromise \in {"true", "false"}
  /\ LET connected == db.dbConnectionPromise = "true" IN
     db' = [db EXCEPT !.caller[c].connected = connected,
                      !.caller[c].pc = "returned",
                      !.caller[c].ops =
                         IF connected /\ db.caller[c].fn # "ensureDbConnection" THEN 1 ELSE 0]
  /\ UNCHANGED <<serverVars, walk, trip, reg>>

\* the caller's result has been consumed
DbReturn(c) ==
  /\ db.caller[c].pc = "returned"
  /\ db' = [db EXCEPT !.caller[c] = IdleCaller]
  /\ UNCHANGED <<serverVars, walk, trip, reg>>


----------------------------------------------------------------------------
(* The upgrade request of a socket *)

\* Origin header: absent, on the allow list, or some other site
NoHeader == "<none>"
allowedOriginList == {"https://app"}
allowAllOrigins == FALSE
Origins == {NoHeader, "https://app", "https://evil"}

\* token query parameter: absent (null), empty, a string that does not
\* verify, or a token signed with the server's secret
NoToken == "<null>"
Tokens == {NoToken, "", "forged", "jwt"}
NoUser == ""

\* room query parameter, as a sequence of characters; NoParam stands for null
MaxRoomIdLen == 64
RoomIdChars == {"a", "Z", "7", "_", "-"}
NoParam == <<"<null>">>
DefaultRoomId == <<"d", "e", "f", "a", "u", "l", "t">>
LongId == [i \in 1..(MaxRoomIdLen + 1) |-> "a"]
RoomParams == {NoParam, DefaultRoomId, <<>>, <<"a", "/">>, LongId}

\* a registry that accepts every Origin header
isAllowedOrigin_any(originHeader) == TRUE

isAllowedOrigin(originHeader) ==
  allowAllOrigins \/ originHeader = NoHeader \/ originHeader \in allowedOriginList

\* /^[a-zA-Z0-9_-]{1,64}$/ ; every character of DefaultRoomId is in the class
isValidRoomId(roomId) ==
  /\ Len(roomId) >= 1 /\ Len(roomId) <= MaxRoomIdLen
  /\ \A i \in 1..Len(roomId) : roomId[i] \in RoomIdChars \cup {"d", "e", "f", "u", "l", "t"}

\* url.searchParams.get('room') ?? 'default'
roomIdOf(param) == IF param = NoParam THEN DefaultRoomId ELSE param

\* a flag that is raised only once the final flushes have settled
isShuttingDown_afterFlush(sh) == sh \in {"closing", "exited"}

\* isShuttingDown: set by the first shutdown signal, never cleared
isShuttingDown(sh) == sh # "no"

NoCode == 0
NoCodes == [s \in 1..NSockets |-> NoCode]

----------------------------------------------------------------------------
(* The keys of the registry *)

\* rooms and pendingRooms as the sets of their keys, and what the last caller
\* of the registry was told
NoKeys == [rooms |-> {}, pendingRooms |-> {}, last |-> "none"]

\* a second id that passes isValidRoomId
OtherRoomId == <<"7", "_">>

\* req.params.id of a REST call: any non-empty path segment, percent-decoded
PathParams == {DefaultRoomId, OtherRoomId, <<"a", "/">>, LongId}

\* the ?room= parameter of an upgrade request
SocketParams == RoomParams \cup {OtherRoomId}

\* getOrCreateRoom(roomId) on the key sets: a new creation is entered into
\* pendingRooms unless rooms or pendingRooms has the key
keyedGetOrCreateRoom(g, roomId) ==
  IF roomId \in g.rooms THEN [g EXCEPT !.last = "existing"]
  ELSE IF roomId \in g.pendingRooms THEN [g EXCEPT !.last = "pending"]
  ELSE [g EXCEPT !.pendingRooms = @ \cup {roomId}, !.last = "create"]

\* the connection callback: the room id is checked before getOrCreateRoom
connectionRoom(g, param) ==
  IF ~isValidRoomId(roomIdOf(param)) THEN [g EXCEPT !.last = "refused"]
  ELSE keyedGetOrCreateRoom(g, roomIdOf(param))

\* the permissions and approve handlers: projectId = req.params.id goes to
\* getOrCreateRoom as it is
restRoom(g, id) == keyedGetOrCreateRoom(g, id)

\* an upgrade request with a valid token reaches the room id check
KeyConnect(param) ==
  /\ reg' = connectionRoom(reg, param)
  /\ UNCHANGED <<serverVars, db, walk, trip>>

\* a REST call with a valid token (and body) reaches getOrCreateRoom
KeyRest(endpoint, id) ==
  /\ reg' = [restRoom(reg, id) EXCEPT !.last = endpoint \o ":" \o @]
  /\ UNCHANGED <<serverVars, db, walk, trip>>

\* the creation settles: rooms.set on success, pendingRooms.delete always
KeyLoaded(id, ok) ==
  /\ id \in reg.pendingRooms
  /\ reg' = [reg EXCEPT !.rooms = IF ok THEN @ \cup {id} ELSE @,
                         !.pendingRooms = @ \ {id},
                         !.last = IF ok THEN "loaded" ELSE "failed"]
  /\ UNCHANGED <<serverVars, db, walk, trip>>

\* the teardown of a Room ends: rooms.delete
KeyDeleted(id) ==
  /\ id \in reg.rooms
  /\ reg' = [reg EXCEPT !.rooms = @ \ {id}, !.last = "deleted"]
  /\ UNCHANGED <<serverVars, db, walk, trip>>

----------------------------------------------------------------------------
(* Pure helpers *)

getRoleRank(role) == IF role = "viewer" THEN 0 ELSE IF role = "editor" THEN 1 ELSE 2

\* the stronger of the token role and the room's override
getEffectiveRole_stronger(permissions, u) ==
  IF permissions[u] # NoRole /\ getRoleRank(permissions[u]) >= getRoleRank(tokenRole(u))
    THEN permissions[u] ELSE tokenRole(u)

\* the token role alone, ignoring the room's overrides
getEffectiveRole_tokenOnly(permissions, u) == tokenRole(u)

\* getEffectiveRole: room.permissions.get(user.userId) ?? user.role
getEffectiveRole(permissions, u) ==
  IF permissions[u] # NoRole THEN permissions[u] ELSE tokenRole(u)

\* a SYNC branch without the role check
syncAllowed_any(permissions, u) == TRUE

\* SYNC branch, role check: the frame is applied iff the rank reaches editor
syncAllowed(permissions, u) ==
  getRoleRank(getEffectiveRole(permissions, u)) >= getRoleRank("editor")

\* REST handlers: requesterRole !== 'admin' -> 403
isAdmin(permissions, u) == getEffectiveRole(permissions, u) = "admin"

NoPerms == [u \in Users |-> NoRole]

\* a Room object that has not been constructed yet; publisher notes, for each
\* state of the presence registry, the origin of the update that set it
Unborn ==
  [phase |-> "unborn", sockets |-> {}, persistTimer |-> FALSE, timers |-> 0,
   delay |-> 0,
   persistInFlight |-> FALSE, persistRequested |-> FALSE,
   permissions |-> NoPerms, sugg |-> "absent",
   calls |-> <<>>, dirty |-> FALSE, waiters |-> <<>>, presence |-> {},
   publisher |-> [c \in ClientIds |-> NoSocket],
   updates |-> 0, persists |-> 0, answered |-> NoPerms]

\* createRoom: fresh doc and awareness, empty socket set, idle scheduler, no
\* overrides
createRoom == [Unborn EXCEPT !.phase = "loading", !.presence = {LocalClientId}]

\* the delays of the timer of scheduleProjectPersist and of the retry timer
PersistDelay == 1200
RetryDelay == 600

\* scheduleProjectPersist that only notes the request
scheduleProjectPersist_noTimer(r) == [r EXCEPT !.persistRequested = TRUE]

\* scheduleProjectPersist with the test of the armed timer left out
scheduleProjectPersist_rearm(r) ==
  [r EXCEPT !.persistRequested = TRUE, !.persistTimer = TRUE,
            !.timers = IF @ < 2 THEN @ + 1 ELSE @, !.delay = PersistDelay]

\* scheduleProjectPersist: set requested; arm a timer only when none is armed
scheduleProjectPersist(r) ==
  IF r.persistTimer
    THEN [r EXCEPT !.persistRequested = TRUE]
    ELSE [r EXCEPT !.persistRequested = TRUE, !.persistTimer = TRUE,
                   !.timers = @ + 1, !.delay = PersistDelay]

\* clearTimeout(room.persistTimer); room.persistTimer = null
clearPersistTimer(r) ==
  IF r.persistTimer
    THEN [r EXCEPT !.persistTimer = FALSE, !.timers = @ - 1, !.delay = 0]
    ELSE r

\* persistProjectState calls started for a Room, counted while the run is
\* observed, up to one more than any number the updates can justify
countCall(k) == IF observe /\ k < MaxUpdates + 2 THEN k + 1 ELSE k

\* flushProjectPersist without the persistInFlight gate
flushProjectPersist_noGate(r, owner) ==
  IF ~r.persistRequested THEN r
  ELSE [r EXCEPT !.persistInFlight = TRUE, !.persistRequested = FALSE,
                 !.calls = Append(@, [owner |-> owner, stale |-> FALSE]),
                 !.persists = countCall(@)]

\* flushProjectPersist up to its await: the gate on inFlight / requested and
\* the start of a persistProjectState call (owner = who awaits the flush)
flushProjectPersist(r, owner) ==
  IF r.persistInFlight THEN [r EXCEPT !.persistRequested = TRUE]
  ELSE IF ~r.persistRequested THEN r
  ELSE [r EXCEPT !.persistInFlight = TRUE, !.persistRequested = FALSE,
                 !.calls = Append(@, [owner |-> owner, stale |-> FALSE]),
                 !.persists = countCall(@)]

\* the end of flushProjectPersist without the re-arm of the timer
flushTail_noRearm(r, ok) ==
  [r EXCEPT !.persistRequested = IF ok THEN @ ELSE TRUE,
            !.persistInFlight = FALSE]

\* the end of flushProjectPersist with a catch that only logs
flushTail_onlyLog(r, ok) ==
  LET r1 == [r EXCEPT !.persistInFlight = FALSE]
  IN IF r1.persistRequested /\ ~r1.persistTimer
       THEN [r1 EXCEPT !.persistTimer = TRUE, !.timers = @ + 1, !.delay = RetryDelay]
       ELSE r1

\* flushProjectPersist after its await: catch / finally and the re-arm
flushTail(r, ok) ==
  LET r1 == [r EXCEPT !.persistRequested = IF ok THEN @ ELSE TRUE,
                      !.persistInFlight = FALSE]
  IN IF r1.persistRequested /\ ~r1.persistTimer
       THEN [r1 EXCEPT !.persistTimer = TRUE, !.timers = @ + 1, !.delay = RetryDelay]
       ELSE r1

\* room.awareness.destroy(); room.doc.destroy()
destroyRoom(r) == [r EXCEPT !.phase = "destroyed", !.presence = @ \ {LocalClientId}]

\* broadcast: the frame goes to every member except `exclude` that is OPEN
broadcast(r, sk, ot, frame, exclude) ==
  [c \in Sockets |->
     IF c \in r.sockets /\ c # exclude /\ sk[c].ready = "OPEN"
       THEN Append(ot[c], frame) ELSE ot[c]]

\* broadcastText: the payload goes to every member except `exclude` that is OPEN
broadcastText(r, sk, ot, payload, exclude) ==
  [c \in Sockets |->
     IF c \in r.sockets /\ c # exclude /\ sk[c].ready = "OPEN"
       THEN Append(ot[c], payload) ELSE ot[c]]

\* socket.send: a frame to one socket; a socket that is not OPEN gets nothing
send(sk, ot, s, frame) ==
  IF sk[s].ready = "OPEN" THEN [ot EXCEPT ![s] = Append(@, frame)] ELSE ot

\* getOrCreateRoom without the pendingRooms lookup
getOrCreateRoom_noPending(rm, pend) ==
  IF rm # NoRoom THEN [kind |-> "existing", room |-> rm]
  ELSE [kind |-> "create", room |-> NoRoom]

\* getOrCreateRoom: registry entry first, then the pending creation, else create
getOrCreateRoom(rm, pend) ==
  IF rm # NoRoom THEN [kind |-> "existing", room |-> rm]
  ELSE IF pend # NoRoom THEN [kind |-> "pending", room |-> pend]
  ELSE [kind |-> "create", room |-> NoRoom]

RemoveAt(seq, i) == [j \in 1..(Len(seq) - 1) |-> IF j < i THEN seq[j] ELSE seq[j + 1]]

NoOut == [s \in Sockets |-> <<>>]

Ev(op, s, o, u, ok) == [op |-> op, s |-> s, o |-> o, u |-> u, ok |-> ok]

\* a step no property needs to tell apart
Quiet == Ev("step", NoSocket, NoRoom, "", TRUE)

----------------------------------------------------------------------------
(* Text frames *)

\* characters of a chat text: a whitespace character and a letter
TextChars == {" ", "h"}
Texts == UNION {[1..n -> TextChars] : n \in 0..MaxTextLen}

\* a text frame: the literal 'ping', something JSON.parse rejects, or a JSON
\* object with its type member, its text member (a string or a number) and a
\* userId member the sender made up
PingFrame == [kind |-> "ping", type |-> "", isString |-> FALSE, text |-> <<>>, from |-> ""]
GarbageFrame == [kind |-> "garbage", type |-> "", isString |-> FALSE, text |-> <<>>, from |-> ""]
TextFrames ==
  {PingFrame, GarbageFrame}
  \cup {[kind |-> "json", type |-> "chat", isString |-> TRUE, text |-> x, from |-> ""] :
          x \in Texts}
  \cup {[kind |-> "json", type |-> "chat", isString |-> TRUE, text |-> <<" ", "h">>,
         from |-> "ua"],
        [kind |-> "json", type |-> "chat", isString |-> FALSE, text |-> <<>>, from |-> ""],
        [kind |-> "json", type |-> "note", isString |-> TRUE, text |-> <<"h">>, from |-> ""]}

NoChat == [ok |-> FALSE, text |-> <<>>]

\* a parser that takes the text as it was sent
parseIncomingChatMessage_noTrim(data) ==
  IF data.kind # "json" THEN NoChat
  ELSE IF data.type # "chat" \/ ~data.isString THEN NoChat
  ELSE IF Len(data.text) = 0 THEN NoChat
  ELSE [ok |-> TRUE, text |-> data.text]

\* parseIncomingChatMessage: null unless the frame is JSON with type 'chat'
\* and a string text that is non-empty after trim
parseIncomingChatMessage(data) ==
  IF data.kind # "json" THEN NoChat
  ELSE IF data.type # "chat" \/ ~data.isString THEN NoChat
  ELSE IF Len(trim(data.text)) = 0 THEN NoChat
  ELSE [ok |-> TRUE, text |-> trim(data.text)]

----------------------------------------------------------------------------
(* The part of the state a handler continuation works on *)

World == [room |-> room, sock |-> sock, ctx |-> socketContexts,
          out |-> NoOut, pw |-> permWrites, resp |-> <<>>, code |-> NoCodes,
          chat |-> NoOut]

\* doc 'update' observer registered by createRoom: broadcast, then schedule.
\* doc.destroy() drops the observers, so a destroyed doc notifies nobody.
docUpdate(W, o, origin) ==
  IF W.room[o].phase = "destroyed" THEN W
  ELSE [W EXCEPT !.out = broadcast(W.room[o], W.sock, W.out, "sync", origin),
                 !.room[o] = scheduleProjectPersist(@)]

\* a change of the doc content: every persist call in flight that has
\* already started is now older than the last change
touch(r) == [r EXCEPT !.dirty = TRUE,
                      !.updates = IF observe THEN @ + 1 ELSE @,
                      !.calls = [i \in 1..Len(@) |-> [@[i] EXCEPT !.stale = TRUE]]]

\* awareness 'update' observer registered by createRoom: broadcast the change
\* unless nothing changed; awareness.destroy() drops the observers
awarenessUpdate(W, o, changed, origin) ==
  IF changed = {} \/ W.room[o].phase = "destroyed" THEN W
  ELSE [W EXCEPT !.out = broadcast(W.room[o], W.sock, W.out, "awareness", origin)]

\* removeAwarenessStates(room.awareness, ids, socket): the states present
\* among ids are deleted and reported as removed
removeAwarenessStates(W, o, ids, origin) ==
  LET removed == ids \cap W.room[o].presence
      cleared == [c \in ClientIds |->
                    IF c \in removed THEN NoSocket ELSE W.room[o].publisher[c]]
  IN awarenessUpdate([W EXCEPT !.room[o].presence = @ \ removed,
                               !.room[o].publisher = cleared], o, removed, origin)

\* applyAwarenessUpdate(room.awareness, payload, socket) for one client entry:
\* an entry with an old clock is ignored; a null state deletes a known
\* client; any other state adds or updates the client
applyAwarenessUpdate(W, o, c, state, newer, origin) ==
  IF ~newer THEN W
  ELSE IF state = "null"
    THEN awarenessUpdate([W EXCEPT !.room[o].presence = @ \ {c},
                                   !.room[o].publisher[c] = NoSocket], o,
                         {c} \cap W.room[o].presence, origin)
  ELSE awarenessUpdate([W EXCEPT !.room[o].presence = @ \cup {c},
                                 !.room[o].publisher[c] = origin], o, {c}, origin)

\* a connection callback that never sends the presence snapshot
attachSocket_noSnapshot(W, s, o) ==
  LET W1 == [W EXCEPT !.room[o].sockets = @ \cup {s},
                      !.ctx[s] = TRUE,
                      !.sock[s].conn = "handled",
                      !.sock[s].room = o]
  IN [W1 EXCEPT !.out = send(W1.sock, send(W1.sock, W1.out, s, "welcome"), s, "sync")]

\* connection callback after `await getOrCreateRoom`: register, welcome, snapshot
attachSocket(W, s, o) ==
  LET W1 == [W EXCEPT !.room[o].sockets = @ \cup {s},
                      !.ctx[s] = TRUE,
                      !.sock[s].conn = "handled",
                      !.sock[s].room = o]
      o1 == send(W1.sock, send(W1.sock, W1.out, s, "welcome"), s, "sync")
  IN [W1 EXCEPT !.out = IF W1.room[o].presence # {}
                          THEN send(W1.sock, o1, s, "awareness") ELSE o1]

\* permissions handler after `await getOrCreateRoom`, up to its
\* `await setProjectPermission`: the response is sent after that await
permissionsHandler(W, u, target, role, o) ==
  LET seen == W.room[o].permissions[u] IN
  IF ~isAdmin(W.room[o].permissions, u)
    THEN [W EXCEPT !.resp = Append(@, [kind |-> "perm", u |-> u, seen |-> seen,
                                       o |-> o, status |-> 403])]
    ELSE [W EXCEPT !.room[o].permissions[target] = role,
                   !.pw = @ \cup {[target |-> target, role |-> role, u |-> u,
                                    seen |-> seen, o |-> o]}]

\* an approve handler without the lookup of the suggestion entry
approveHandler_no404(W, u, o) ==
  LET seen == W.room[o].permissions[u] IN
  IF ~isAdmin(W.room[o].permissions, u)
    THEN [W EXCEPT !.resp = Append(@, [kind |-> "approve", u |-> u, seen |-> seen,
                                       o |-> o, status |-> 403])]
  ELSE LET W1 == [W EXCEPT !.room[o] = touch([@ EXCEPT !.sugg = "approved"])]
           W2 == docUpdate(W1, o, NoSocket)
           W3 == [W2 EXCEPT !.room[o] = scheduleProjectPersist(@)]
       IN [W3 EXCEPT !.resp = Append(@, [kind |-> "approve", u |-> u, seen |-> seen,
                                         o |-> o, status |-> 200])]

\* approve handler after `await getOrCreateRoom`
approveHandler(W, u, o) ==
  LET seen == W.room[o].permissions[u] IN
  IF ~isAdmin(W.room[o].permissions, u)
    THEN [W EXCEPT !.resp = Append(@, [kind |-> "approve", u |-> u, seen |-> seen,
                                       o |-> o, status |-> 403])]
  ELSE IF W.room[o].sugg = "absent"
    THEN [W EXCEPT !.resp = Append(@, [kind |-> "approve", u |-> u, seen |-> seen,
                                       o |-> o, status |-> 404])]
  ELSE LET W1 == [W EXCEPT !.room[o] = touch([@ EXCEPT !.sugg = "approved"])]
           W2 == docUpdate(W1, o, NoSocket)
           W3 == [W2 EXCEPT !.room[o] = scheduleProjectPersist(@)]
       IN [W3 EXCEPT !.resp = Append(@, [kind |-> "approve", u |-> u, seen |-> seen,
                                         o |-> o, status |-> 200])]

\* resume one caller of getOrCreateRoom with the Room it resolved to
resume(W, w, o) ==
  IF w.kind = "sock" THEN attachSocket(W, w.s, o)
  ELSE IF w.kind = "perm" THEN permissionsHandler(W, w.u, w.target, w.role, o)
  ELSE approveHandler(W, w.u, o)

RECURSIVE resumeAll(_, _, _)
resumeAll(W, ws, o) ==
  IF ws = <<>> THEN W ELSE resumeAll(resume(W, Head(ws), o), Tail(ws), o)

\* a rejection that reaches the sockets only: a REST caller keeps waiting
reject_socketsOnly(W, w) ==
  IF w.kind = "sock"
    THEN [W EXCEPT !.sock[w.s].conn = "rejected",
                   !.code[w.s] = IF W.sock[w.s].ready = "OPEN" THEN 1011 ELSE @,
                   !.sock[w.s].ready = IF @ = "OPEN" THEN "CLOSING" ELSE @]
    ELSE W

\* rejection of the creation promise: a socket waiter is closed with 1011,
\* a REST waiter's handler rejects
reject(W, w) ==
  IF w.kind = "sock"
    THEN [W EXCEPT !.sock[w.s].conn = "rejected",
                   !.code[w.s] = IF W.sock[w.s].ready = "OPEN" THEN 1011 ELSE @,
                   !.sock[w.s].ready = IF @ = "OPEN" THEN "CLOSING" ELSE @]
    ELSE [W EXCEPT !.resp = Append(@, [kind |-> w.kind, u |-> w.u, seen |-> NoRole,
                                       o |-> NoRoom, status |-> 500])]

RECURSIVE rejectAll(_, _)
rejectAll(W, ws) ==
  IF ws = <<>> THEN W ELSE rejectAll(reject(W, Head(ws)), Tail(ws))

PermWaiter(u, target, role) == [kind |-> "perm", s |-> NoSocket, u |-> u, target |-> target, role |-> role]
ApproveWaiter(u) == [kind |-> "approve", s |-> NoSocket, u |-> u, target |-> "", role |-> ""]

RestWaiting == Cardinality({<<o, i>> \in Objs \X (1..(NSockets + MaxRestWaiting + 1)) :
                              i <= Len(room[o].waiters) /\ room[o].waiters[i].kind # "sock"})

\* a destroyed (or never registered) Room that no timer, store call, socket
\* or registry entry refers to is garbage: its slot is free for a new Room
Collectable(W, o) ==
  /\ W.room[o].phase \in {"destroyed", "failed"}
  /\ W.room[o].timers = 0
  /\ W.room[o].calls = <<>>
  /\ W.room[o].sockets = {}
  /\ \A s \in Sockets : W.sock[s].room # o

\* the state after a handler; the Room the step acted on stays inspectable
Commit(W, ev) ==
  /\ room' = [o \in Objs |-> IF o # ev.o /\ Collectable(W, o) THEN Unborn ELSE W.room[o]]
  /\ last' = ev
  /\ sock' = W.sock
  /\ socketContexts' = W.ctx
  /\ out' = W.out
  /\ permWrites' = W.pw
  /\ resp' = W.resp
  /\ observe' = observe
  /\ closeCode' = W.code
  /\ chatOut' = W.chat
  /\ UNCHANGED <<db, walk, trip, reg>>

FreshObjs == {o \in Objs : room[o].phase = "unborn"}

\* a caller reaches `await getOrCreateRoom(roomId)`
Acquire(W, w, ev) ==
  LET d == getOrCreateRoom(rooms, pendingRooms) IN
  IF d.kind = "existing"
    THEN /\ Commit(resume(W, w, d.room), [ev EXCEPT !.o = d.room])
         /\ UNCHANGED <<rooms, pendingRooms>>
  ELSE IF d.kind = "pending"
    THEN /\ Commit([W EXCEPT !.room[d.room].waiters = Append(@, w)],
                   Quiet)
         /\ UNCHANGED <<rooms, pendingRooms>>
  ELSE /\ FreshObjs # {}
       /\ LET o == Min(FreshObjs) IN
            /\ Commit([W EXCEPT !.room[o] = [createRoom EXCEPT !.waiters = <<w>>]],
                      [ev EXCEPT !.op = "create", !.o = o])
            /\ pendingRooms' = o
       /\ UNCHANGED rooms

Running == shut # "exited"

----------------------------------------------------------------------------
NewSocket == [conn |-> "new", ready |-> "OPEN", user |-> "", room |-> NoRoom, ids |-> {},
              token |-> NoToken, via |-> ""]

\* a closed socket that no Room and no context refers to any more is garbage:
\* its slot is free for the next incoming connection
release(W, s) ==
  IF /\ W.sock[s].ready = "CLOSED"
     /\ W.sock[s].conn = "handled"
     /\ ~W.ctx[s]
     /\ \A o \in Objs : s \notin W.room[o].sockets
    THEN [W EXCEPT !.sock[s] = NewSocket]
    ELSE W

InitServer ==
  /\ room = [o \in Objs |-> Unborn]
  /\ rooms = NoRoom
  /\ pendingRooms = NoRoom
  /\ sock = [s \in Sockets |-> NewSocket]
  /\ socketContexts = [s \in Sockets |-> FALSE]
  /\ store = [permissions |-> NoPerms]
  /\ permWrites = {}
  /\ shut = "no"
  /\ last = Ev("init", NoSocket, NoRoom, "", TRUE)
  /\ out = NoOut
  /\ resp = <<>>
  /\ observe = FALSE
  /\ closeCode = NoCodes
  /\ chatOut = NoOut

Init ==
  /\ InitServer
  /\ db = IdleDb
  /\ walk = NoWalk
  /\ trip = NoTrip
  /\ reg = NoKeys

\* the same start, with the updates and store calls of every Room counted
InitCount ==
  /\ room = [o \in Objs |-> Unborn]
  /\ rooms = NoRoom
  /\ pendingRooms = NoRoom
  /\ sock = [s \in Sockets |-> NewSocket]
  /\ socketContexts = [s \in Sockets |-> FALSE]
  /\ store = [permissions |-> NoPerms]
  /\ permWrites = {}
  /\ shut = "no"
  /\ last = Ev("init", NoSocket, NoRoom, "", TRUE)
  /\ out = NoOut
  /\ resp = <<>>
  /\ observe = TRUE
  /\ closeCode = NoCodes
  /\ chatOut = NoOut
  /\ db = IdleDb
  /\ walk = NoWalk
  /\ trip = NoTrip
  /\ reg = NoKeys

\* jwt.verify and the payload checks: the user of a token signed with the
\* server's secret, NoUser for anything else
verifyToken(token, s) == IF token = "jwt" THEN userOf(s) ELSE NoUser

\* a handler that closes every refused socket as a policy violation
refuse_always1008(s, code, reason) ==
  /\ Commit([World EXCEPT !.code[s] = 1008], Ev("reject", s, NoRoom, reason, FALSE))
  /\ UNCHANGED <<rooms, pendingRooms>>

\* socket.close(code, reason) before the socket joins anything
refuse(s, code, reason) ==
  /\ Commit([World EXCEPT !.code[s] = code], Ev("reject", s, NoRoom, reason, FALSE))
  /\ UNCHANGED <<rooms, pendingRooms>>

\* wss.on('connection'): the checks of the upgrade request, in the order of
\* the handler, then the acquisition of the Room
Accept(s, origin, token, param) ==
  /\ Running
  /\ sock[s].conn = "new"
  /\ IF isShuttingDown(shut) THEN refuse(s, 1012, "server shutting down")
     ELSE IF ~isAllowedOrigin(origin) THEN refuse(s, 1008, "origin not allowed")
     ELSE IF token = NoToken \/ token = "" THEN refuse(s, 1008, "missing token")
     ELSE IF verifyToken(token, s) = NoUser THEN refuse(s, 1008, "invalid token")
     ELSE IF ~isValidRoomId(roomIdOf(param)) THEN refuse(s, 1008, "invalid room id")
     ELSE LET u == verifyToken(token, s)
              W == [World EXCEPT !.sock[s].conn = "awaiting", !.sock[s].user = u,
                                 !.sock[s].token = token,
                                 !.sock[s].via = IF param = NoParam THEN "default"
                                                 ELSE "param"]
          IN Acquire(W, [kind |-> "sock", s |-> s, u |-> u, target |-> "", role |-> ""],
                     Ev("attach", s, NoRoom, u, TRUE))
  /\ UNCHANGED <<store, shut>>

\* a socket with no Origin header, a valid token and the room id in its URL
Connect(s) == Accept(s, NoHeader, "jwt", DefaultRoomId)

\* the peer starts closing (or the connection breaks): readyState leaves OPEN
\* one turn before the 'close' event is delivered
PeerClose(s) ==
  /\ Running
  /\ sock[s].conn \in {"awaiting", "handled"}
  /\ sock[s].ready = "OPEN"
  /\ Commit([World EXCEPT !.sock[s].ready = "CLOSING"],
         Quiet)
  /\ UNCHANGED <<rooms, pendingRooms, store, shut>>

\* removeSocketFromRoom without the test of room.sockets.size
removeSocketFromRoom_alwaysFlush(W, s, o) ==
  LET W0 == removeAwarenessStates([W EXCEPT !.room[o].sockets = @ \ {s}], o,
                                  W.sock[s].ids, s)
      r1 == W0.room[o]
      W1 == [W0 EXCEPT !.ctx[s] = FALSE]
      r2 == [clearPersistTimer(r1) EXCEPT !.persistRequested = TRUE]
      r3 == flushProjectPersist(r2, "teardown")
  IN IF r1.sockets # {}
       THEN [w |-> [W1 EXCEPT !.room[o] = r2], destroyed |-> FALSE, waiting |-> FALSE]
     ELSE IF Len(r3.calls) > Len(r2.calls)
       THEN [w |-> [W1 EXCEPT !.room[o] = r3], destroyed |-> FALSE, waiting |-> TRUE]
     ELSE [w |-> [W1 EXCEPT !.room[o] = destroyRoom(r3)], destroyed |-> TRUE,
           waiting |-> FALSE]

\* removeSocketFromRoom when the registry has a Room for context.roomId
removeSocketFromRoom(W, s, o) ==
  LET W0 == removeAwarenessStates([W EXCEPT !.room[o].sockets = @ \ {s}], o,
                                  W.sock[s].ids, s)
      r1 == W0.room[o]
      W1 == [W0 EXCEPT !.ctx[s] = FALSE]
      r2 == [clearPersistTimer(r1) EXCEPT !.persistRequested = TRUE]
      r3 == flushProjectPersist(r2, "teardown")
  IN IF r1.sockets # {}
       THEN [w |-> W1, destroyed |-> FALSE, waiting |-> FALSE]
     ELSE IF Len(r3.calls) > Len(r2.calls)
       THEN [w |-> [W1 EXCEPT !.room[o] = r3], destroyed |-> FALSE, waiting |-> TRUE]
     ELSE [w |-> [W1 EXCEPT !.room[o] = destroyRoom(r3)], destroyed |-> TRUE,
           waiting |-> FALSE]

\* socket 'close' event; only a socket whose handlers were registered
\* (after the await of getOrCreateRoom) runs removeSocketFromRoom
CloseEvent(s) ==
  /\ Running
  /\ sock[s].conn \in {"awaiting", "handled"}
  /\ sock[s].ready = "CLOSING"
  /\ LET W == [World EXCEPT !.sock[s].ready = "CLOSED"] IN
     IF sock[s].conn = "awaiting" \/ ~socketContexts[s]
       THEN /\ Commit(W,
                   Ev("closed", s, NoRoom, sock[s].user, FALSE))
            /\ UNCHANGED rooms
     ELSE IF rooms = NoRoom
       THEN /\ Commit(release([W EXCEPT !.ctx[s] = FALSE], s),
                   Ev("closed", s, NoRoom, sock[s].user, FALSE))
            /\ UNCHANGED rooms
     ELSE LET res == removeSocketFromRoom(W, s, rooms) IN
            /\ Commit(release(res.w, s),
                      IF res.destroyed THEN Ev("destroy", s, rooms, sock[s].user, FALSE)
                      ELSE IF res.waiting THEN Ev("teardown", s, rooms, sock[s].user, TRUE)
                      ELSE Ev("closed", s, rooms, sock[s].user, TRUE))
            /\ rooms' = IF res.destroyed THEN NoRoom ELSE rooms
  /\ UNCHANGED <<pendingRooms, store, shut>>

\* binary SYNC frame from an attached socket; the update it carries publishes
\* (or rewrites) the suggestion entry, as the clients of the tests do
Sync(s) ==
  /\ Running
  /\ sock[s].conn = "handled"
  /\ sock[s].ready = "OPEN"
  /\ socketContexts[s]
  /\ observe => room[sock[s].room].updates < MaxUpdates
  /\ LET o == sock[s].room
         u == sock[s].user
     IN IF ~syncAllowed(room[o].permissions, u)
          THEN /\ Commit([World EXCEPT !.out = send(sock, NoOut, s, "error")],
                      Ev("sync", s, o, u, FALSE))
          ELSE /\ LET W1 == [World EXCEPT !.room[o] = touch([@ EXCEPT !.sugg = "open"])]
                  IN Commit(docUpdate(W1, o, s),
                      Ev("sync", s, o, u, TRUE))
  /\ UNCHANGED <<rooms, pendingRooms, store, shut>>

\* binary AWARENESS frame from an attached socket announcing client c: the
\* id is recorded in the socket's context, then the update is applied
Awareness(s, c, state, newer) ==
  /\ Running
  /\ sock[s].conn = "handled"
  /\ sock[s].ready = "OPEN"
  /\ LET o == sock[s].room
         W1 == IF socketContexts[s]
                 THEN [World EXCEPT !.sock[s].ids = @ \cup {c}] ELSE World
         W2 == applyAwarenessUpdate(W1, o, c, state, newer, s)
     IN Commit(W2, Ev("awareness", s, o, sock[s].user, W2.room[o].presence # room[o].presence))
  /\ UNCHANGED <<rooms, pendingRooms, store, shut>>

\* binary frames that do not parse: no byte at all, an AWARENESS payload whose
\* header ends early, a SYNC payload that is no update, a type byte that is
\* neither SYNC nor AWARENESS
BadFrames == {"empty", "badAwareness", "badSync", "unknownType"}

\* the 'message' listener has no try/catch: what readAwarenessClientIds or
\* Y.applyUpdate throws leaves the listener; the emitter either lets it end
\* the process as an uncaught exception or swallows it
thrown(W, ev, caught) ==
  /\ Commit(W, [ev EXCEPT !.ok = FALSE])
  /\ shut' = IF caught THEN shut ELSE "exited"

\* a binary frame of one of the BadFrames from an attached socket
BinaryFrame(s, kind, caught) ==
  /\ Running
  /\ sock[s].conn = "handled"
  /\ sock[s].ready = "OPEN"
  /\ LET o == sock[s].room
         u == sock[s].user
         ev == [op |-> "frame", s |-> s, o |-> o, u |-> u, ok |-> TRUE, data |-> kind]
     IN IF kind = "empty" \/ kind = "unknownType"
          THEN Commit(World, ev) /\ UNCHANGED shut
        ELSE IF kind = "badSync"
          THEN IF ~socketContexts[s] THEN Commit(World, ev) /\ UNCHANGED shut
               ELSE IF ~syncAllowed(room[o].permissions, u)
                 THEN /\ Commit([World EXCEPT !.out = send(sock, NoOut, s, "error")], ev)
                      /\ UNCHANGED shut
               ELSE thrown(World, ev, caught)
        ELSE thrown(World, ev, caught)
  /\ UNCHANGED <<rooms, pendingRooms, store>>

\* a text frame from an attached socket: 'ping' is answered with 'pong'; a
\* frame that parses as a chat message is broadcast to the whole Room under
\* the identity of the socket's context
Chat(s, data) ==
  /\ Running
  /\ sock[s].conn = "handled"
  /\ sock[s].ready = "OPEN"
  /\ LET o == sock[s].room
         u == sock[s].user
         m == parseIncomingChatMessage(data)
         ev(ok) == [op |-> "chat", s |-> s, o |-> o, u |-> u, ok |-> ok, data |-> data]
     IN IF data.kind = "ping"
          THEN Commit([World EXCEPT !.out = send(sock, NoOut, s, "pong")], ev(FALSE))
        ELSE IF ~socketContexts[s] \/ ~m.ok
          THEN Commit(World, ev(FALSE))
        ELSE Commit([World EXCEPT !.chat = broadcastText(room[o], sock, NoOut,
                        [userId |-> u, username |-> usernameOf(u), text |-> m.text],
                        NoSocket)],
                    ev(TRUE))
  /\ UNCHANGED <<rooms, pendingRooms, store, shut>>

\* the interval of the Room's Awareness object: it may renew the local state
\* (reported as updated, origin 'local') and drops the remote clients that
\* sent nothing for the timeout (reported as removed, origin 'timeout');
\* awareness.destroy() clears the interval
AwarenessInterval(o, renew, outdated) ==
  /\ Running
  /\ room[o].phase = "live"
  /\ outdated \subseteq room[o].presence \ {LocalClientId}
  /\ renew \/ outdated # {}
  /\ LET W1 == IF renew THEN awarenessUpdate(World, o, {LocalClientId}, NoSocket)
                ELSE World
         W2 == removeAwarenessStates(W1, o, outdated, NoSocket)
     IN Commit(W2, Ev("awarenessInterval", NoSocket, o, "", renew))
  /\ UNCHANGED <<rooms, pendingRooms, store, shut>>

\* POST /api/projects/:id/permissions with a valid token and body
RestPermissions(u, target, role) ==
  /\ Running
  /\ IF isShuttingDown(shut)
       THEN /\ Commit([World EXCEPT !.resp = <<[kind |-> "perm", u |-> u, seen |-> NoRole,
                                                o |-> NoRoom, status |-> 503]>>],
                   Ev("perm", NoSocket, NoRoom, u, FALSE))
            /\ UNCHANGED <<rooms, pendingRooms>>
       ELSE /\ rooms = NoRoom => RestWaiting < MaxRestWaiting
            /\ Acquire(World, PermWaiter(u, target, role), Ev("perm", NoSocket, NoRoom, u, TRUE))
  /\ UNCHANGED <<store, shut>>

\* POST /api/projects/:id/suggestions/:suggestionId/approve with a valid token
RestApprove(u) ==
  /\ Running
  /\ IF isShuttingDown(shut)
       THEN /\ Commit([World EXCEPT !.resp = <<[kind |-> "approve", u |-> u, seen |-> NoRole,
                                                o |-> NoRoom, status |-> 503]>>],
                   Ev("approve", NoSocket, NoRoom, u, FALSE))
            /\ UNCHANGED <<rooms, pendingRooms>>
       ELSE /\ rooms = NoRoom => RestWaiting < MaxRestWaiting
            /\ Acquire(World, ApproveWaiter(u), Ev("approve", NoSocket, NoRoom, u, TRUE))
  /\ UNCHANGED <<store, shut>>

\* loadProjectState returns (ok) or throws: the body of creatingRoom after its
\* await, then every caller awaiting the creation promise, in call order
LoadDone(o, ok, hasData) ==
  /\ Running
  /\ room[o].phase = "loading"
  /\ IF ok
       THEN LET r2 == IF hasData THEN scheduleProjectPersist(room[o]) ELSE room[o]
                r3 == [r2 EXCEPT !.permissions = store.permissions,
                                 !.phase = "live", !.waiters = <<>>]
                W == [World EXCEPT !.room[o] = r3]
            IN /\ Commit(resumeAll(W, room[o].waiters, o), Ev("loaded", NoSocket, o, "", ok))
               /\ rooms' = o
       ELSE /\ ~hasData
            /\ Commit(rejectAll([World EXCEPT !.room[o].phase = "failed",
                                              !.room[o].waiters = <<>>],
                                room[o].waiters),
                      Ev("loaded", NoSocket, o, "", ok))
            /\ UNCHANGED rooms
  /\ pendingRooms' = NoRoom
  /\ UNCHANGED <<store, shut>>

\* a persist timeout fires: room.persistTimer = null; flushProjectPersist
TimerFire(o) ==
  /\ Running
  /\ room[o].timers > 0
  /\ LET r1 == [room[o] EXCEPT !.persistTimer = FALSE, !.timers = @ - 1, !.delay = 0]
         r2 == flushProjectPersist(r1, "timer")
     IN /\ Commit([World EXCEPT !.room[o] = r2],
               Ev("timer", NoSocket, o, "", Len(r2.calls) > Len(r1.calls)))
  /\ UNCHANGED <<rooms, pendingRooms, store, shut>>

\* shutdown after `await Promise.allSettled(persistTasks)`: close every client
closeClients(W) ==
  [W EXCEPT !.sock = [s \in Sockets |->
     IF W.sock[s].conn \in {"awaiting", "handled"} /\ W.sock[s].ready = "OPEN"
       THEN [W.sock[s] EXCEPT !.ready = "CLOSING"] ELSE W.sock[s]],
            !.code = [s \in Sockets |->
     IF W.sock[s].conn \in {"awaiting", "handled"} /\ W.sock[s].ready = "OPEN"
       THEN 1012 ELSE W.code[s]]]

\* persistProjectState returns (ok) or throws; the flush that awaited it
\* finishes and then the caller that awaited the flush continues
PersistDone(o, i, ok) ==
  /\ Running
  /\ i \in 1..Len(room[o].calls)
  /\ LET c == room[o].calls[i]
         r1 == [room[o] EXCEPT !.calls = RemoveAt(@, i),
                               !.dirty = IF ok /\ ~c.stale THEN FALSE ELSE @]
         r2 == flushTail(r1, ok)
         W == [World EXCEPT !.room[o] = r2]
     IN /\ IF c.owner = "teardown"
             THEN /\ Commit([W EXCEPT !.room[o] = destroyRoom(@)],
                            Ev("destroy", NoSocket, o, IF ok THEN "stored" ELSE "threw", TRUE))
                  /\ rooms' = NoRoom
                  /\ UNCHANGED shut
           ELSE IF c.owner = "shutdown"
             THEN /\ Commit(closeClients(W), Ev("persisted", NoSocket, o, "", ok))
                  /\ shut' = "closing"
                  /\ UNCHANGED rooms
           ELSE /\ Commit(W,
                       Ev("persisted", NoSocket, o, "", ok))
                /\ UNCHANGED <<rooms, shut>>
  /\ UNCHANGED <<pendingRooms, store>>

\* setProjectPermission returns (ok) or throws, and the permissions handler
\* that awaited it continues: res.json on success; when the call throws the
\* handler's promise rejects and no 200 is sent (recorded as 500)
StorePermWrite(w, ok) ==
  /\ Running
  /\ w \in permWrites
  /\ store' = IF ok THEN [store EXCEPT !.permissions[w.target] = w.role] ELSE store
  /\ LET W1 == [World EXCEPT !.pw = @ \ {w},
                             !.resp = <<[kind |-> "perm", u |-> w.u, seen |-> w.seen,
                                         o |-> w.o, status |-> IF ok THEN 200 ELSE 500]>>]
         W2 == IF ok THEN [W1 EXCEPT !.room[w.o].answered[w.target] = w.role] ELSE W1
     IN Commit(W2, Ev("permDone", NoSocket, w.o, w.target, ok))
  /\ UNCHANGED <<rooms, pendingRooms, shut>>

\* SIGINT / SIGTERM: flag, final flush of every registry Room, then close
Shutdown ==
  /\ shut = "no"
  /\ IF rooms = NoRoom
       THEN /\ Commit(closeClients(World), Ev("shutdown", NoSocket, rooms, "", TRUE))
            /\ shut' = "closing"
       ELSE LET r1 == [clearPersistTimer(room[rooms]) EXCEPT !.persistRequested = TRUE]
                r2 == flushProjectPersist(r1, "shutdown")
                W == [World EXCEPT !.room[rooms] = r2]
            IN IF Len(r2.calls) > Len(r1.calls)
                 THEN /\ Commit(W, Ev("shutdown", NoSocket, rooms, "", TRUE))
                      /\ shut' = "flushing"
                 ELSE /\ Commit(closeClients(W), Ev("shutdown", NoSocket, rooms, "", TRUE))
                      /\ shut' = "closing"
  /\ UNCHANGED <<rooms, pendingRooms, store>>

\* a further SIGINT / SIGTERM: shutdownInProgress is set, shutdown returns
ShutdownAgain ==
  /\ shut \in {"flushing", "closing"}
  /\ Commit(World, Ev("signal", NoSocket, NoRoom, "", FALSE))
  /\ UNCHANGED <<rooms, pendingRooms, store, shut>>

\* process.exit(0) once the HTTP server has closed
Exit ==
  /\ shut = "closing"
  /\ shut' = "exited"
  /\ Commit(World,
         Quiet)
  /\ UNCHANGED <<rooms, pendingRooms, store>>

\* registry, membership and scheduler; room permissions stay as loaded
Next ==
  \/ \E s \in Sockets : Connect(s)
  \/ \E s \in Sockets : PeerClose(s)
  \/ \E s \in Sockets : CloseEvent(s)
  \/ \E s \in Sockets : Sync(s)
  \/ \E u \in Admins : RestApprove(u)
  \/ \E o \in Objs, ok \in BOOLEAN, hasData \in BOOLEAN : LoadDone(o, ok, hasData)
  \/ \E o \in Objs : TimerFire(o)
  \/ \E o \in Objs, i \in 1..2, ok \in BOOLEAN : PersistDone(o, i, ok)

Spec == Init /\ [][Next]_vars

\* every caller of flushProjectPersist: timers, teardowns and shutdown
NextShutdown ==
  \/ \E s \in Sockets : Connect(s)
  \/ \E s \in Sockets : PeerClose(s)
  \/ \E s \in Sockets : CloseEvent(s)
  \/ \E s \in Sockets : Sync(s)
  \/ \E o \in Objs, ok \in BOOLEAN, hasData \in BOOLEAN : LoadDone(o, ok, hasData)
  \/ \E o \in Objs : TimerFire(o)
  \/ \E o \in Objs, i \in 1..2, ok \in BOOLEAN : PersistDone(o, i, ok)
  \/ Shutdown
  \/ Exit

SpecShutdown == Init /\ [][NextShutdown]_vars

\* connections and REST calls before, during and after a shutdown
NextDrain ==
  \/ \E s \in Sockets : Connect(s)
  \/ \E s \in Sockets : PeerClose(s)
  \/ \E s \in Sockets : CloseEvent(s)
  \/ \E u \in RestUsers \ Admins : RestPermissions(u, "ue", "viewer")
  \/ \E u \in Admins : RestApprove(u)
  \/ \E o \in Objs, ok \in BOOLEAN, hasData \in BOOLEAN : LoadDone(o, ok, hasData)
  \/ \E o \in Objs : TimerFire(o)
  \/ \E o \in Objs, i \in 1..2, ok \in BOOLEAN : PersistDone(o, i, ok)
  \/ Shutdown
  \/ ShutdownAgain
  \/ Exit

SpecDrain == Init /\ [][NextDrain]_vars

\* a process start with any MONGODB_URI, before any Room exists
InitDb ==
  /\ InitServer
  /\ \E uri \in MongoUris : db = [IdleDb EXCEPT !.mongoUri = uri]
  /\ walk = NoWalk
  /\ trip = NoTrip
  /\ reg = NoKeys

\* concurrent calls of the persistence functions over one process lifetime
NextDb ==
  \/ \E c \in Callers, fn \in DbFunctions : DbCall(c, fn)
  \/ \E ok \in BOOLEAN : DbConnectSettles(ok)
  \/ \E c \in Callers : DbResume(c)
  \/ \E c \in Callers : DbReturn(c)

SpecDb == InitDb /\ [][NextDb]_vars

\* persistProjectState derives the path of one file of any tree
\* a doc is flushed to a store that may hold rows of an earlier flush; whether
\* a lean query returns a Map field as a Map is left open
InitTrip ==
  /\ InitServer
  /\ db = IdleDb
  /\ walk = NoWalk
  /\ reg = NoKeys
  /\ \E doc \in Docs, st \in Stores, leanMaps \in BOOLEAN :
       trip = [pc |-> "doc", doc |-> doc, store |-> st, leanMaps |-> leanMaps,
               loaded |-> [files |-> <<>>, nodes |-> <<>>, folders |-> {},
                           suggestions |-> <<>>]]

NextTrip ==
  \/ TripPersistFiles
  \/ TripPersistSuggestions
  \/ TripLoad

SpecTrip == InitTrip /\ [][NextTrip]_vars

----------------------------------------------------------------------------
(* The file and suggestion collections, shared by every project *)

ProjectIds == {"R", "P"}

\* rows an earlier flush of some project left in a collection, keyed by _id
OldFile == [path |-> <<"o", "l", "d">>, content |-> "old"]
OldSuggestion == [file_id |-> "a", creator_id |-> "a", text |-> "old",
                  votes |-> [u \in VoteUsers |-> 1]]

\* a record with the field project_id set
withProject(row, projectId) ==
  [f \in DOMAIN row \cup {"project_id"} |->
     IF f = "project_id" THEN projectId ELSE row[f]]

FileCollections ==
  UNION {[F -> {withProject(OldFile, p) : p \in ProjectIds}] : F \in SUBSET FileIds}
SuggestionCollections ==
  UNION {[S -> {withProject(OldSuggestion, p) : p \in ProjectIds}] :
           S \in SUBSET SuggestionIds}

\* bulkWrite of updateOne { filter: { _id }, $set: { project_id, ... },
\* upsert: true }: the record with that _id, of whatever project, gets the
\* fields; without one a record is inserted
bulkWrite(coll, projectId, rows) ==
  [id \in DOMAIN coll \cup DOMAIN rows |->
     IF id \in DOMAIN rows THEN withProject(rows[id], projectId) ELSE coll[id]]

\* deleteMany({ project_id: projectId, _id: { $nin: ids } })
deleteMany(coll, projectId, ids) ==
  [id \in {i \in DOMAIN coll : ~(coll[i].project_id = projectId /\ i \notin ids)} |->
     coll[id]]

\* persistProjectState(projectId, doc) up to FileModel.deleteMany
SharedPersistFiles ==
  /\ trip.pc = "call"
  /\ LET rows == fileRows(trip.doc) IN
     trip' = [trip EXCEPT
       !.pc = "files written",
       !.files = deleteMany(IF DOMAIN rows # {}
                              THEN bulkWrite(@, trip.projectId, rows) ELSE @,
                            trip.projectId, DOMAIN rows)]
  /\ UNCHANGED <<serverVars, db, walk, reg>>

\* persistProjectState from the suggestion rows to SuggestionModel.deleteMany
SharedPersistSuggestions ==
  /\ trip.pc = "files written"
  /\ LET rows == suggestionRows(trip.doc)
         stored == [id \in DOMAIN rows |-> storedSuggestion(rows[id])]
     IN trip' = [trip EXCEPT
       !.pc = "returned",
       !.suggestions = deleteMany(IF DOMAIN rows # {}
                                    THEN bulkWrite(@, trip.projectId, stored) ELSE @,
                                  trip.projectId, DOMAIN rows)]
  /\ UNCHANGED <<serverVars, db, walk, reg>>

\* a call persistProjectState(projectId, doc) on collections that hold
\* records of both projects; the doc has no tree, its files get the fallback
\* path
InitShared ==
  /\ InitServer
  /\ db = IdleDb
  /\ walk = NoWalk
  /\ reg = NoKeys
  /\ \E projectId \in ProjectIds, doc \in Docs,
        files \in FileCollections, suggestions \in SuggestionCollections :
       /\ doc.tree = NoTree
       /\ trip = [pc |-> "call", projectId |-> projectId, doc |-> doc,
                  before |-> [files |-> files, suggestions |-> suggestions],
                  files |-> files, suggestions |-> suggestions]

NextShared ==
  \/ SharedPersistFiles
  \/ SharedPersistSuggestions

SpecShared == InitShared /\ [][NextShared]_vars

InitKeys ==
  /\ InitServer
  /\ db = IdleDb
  /\ walk = NoWalk
  /\ trip = NoTrip
  /\ reg = NoKeys

NextKeys ==
  \/ \E param \in SocketParams : KeyConnect(param)
  \/ \E endpoint \in {"permissions", "approve"}, id \in PathParams : KeyRest(endpoint, id)
  \/ \E id \in PathParams, ok \in BOOLEAN : KeyLoaded(id, ok)
  \/ \E id \in PathParams : KeyDeleted(id)

SpecKeys == InitKeys /\ [][NextKeys]_vars

InitTree ==
  /\ InitServer
  /\ db = IdleDb
  /\ trip = NoTrip
  /\ reg = NoKeys
  /\ \E tree \in [NodeIds -> TreeNodes], fileId \in NodeIds : walk = startWalk(tree, fileId)

NextTree ==
  \/ WalkLoop
  \/ WalkStore

\* the loop is run to its end: a function that is called keeps executing
SpecTree == InitTree /\ [][NextTree]_vars /\ WF_vars(NextTree)

\* authorization: permission changes interleaved with SYNC frames and REST
\* calls on rooms whose sockets stay connected
NextAuth ==
  \/ \E s \in Sockets : Connect(s)
  \/ \E s \in Sockets : Sync(s)
  \/ \E u \in RestUsers, p \in PermInputs : RestPermissions(u, p[1], p[2])
  \/ \E u \in RestUsers : RestApprove(u)
  \/ \E o \in Objs, ok \in BOOLEAN, hasData \in BOOLEAN : LoadDone(o, ok, hasData)
  \/ \E o \in Objs : TimerFire(o)
  \/ \E o \in Objs, i \in 1..2, ok \in BOOLEAN : PersistDone(o, i, ok)
  \/ \E w \in permWrites, ok \in BOOLEAN : StorePermWrite(w, ok)

SpecAuth == Init /\ [][NextAuth]_vars

\* permission changes by the admin, their store writes and the SYNC frames of
\* the sockets they concern; the persist scheduler is left out
NextPerm ==
  \/ \E s \in Sockets : Connect(s)
  \/ \E s \in Sockets : Sync(s)
  \/ \E u \in RestUsers, p \in PermChanges : RestPermissions(u, p[1], p[2])
  \/ \E o \in Objs, ok \in BOOLEAN, hasData \in BOOLEAN : LoadDone(o, ok, hasData)
  \/ \E w \in permWrites, ok \in BOOLEAN : StorePermWrite(w, ok)

SpecPerm == Init /\ [][NextPerm]_vars

\* the scheduler of a Room whose connection comes and goes, without REST
\* calls and shutdown; Node fires an armed timeout and the store driver
\* settles every call
SchedulerSockets == {s \in Sockets : s < NSockets}

NextLive ==
  \/ \E s \in SchedulerSockets : Connect(s)
  \/ \E s \in SchedulerSockets : PeerClose(s)
  \/ \E s \in SchedulerSockets : CloseEvent(s)
  \/ \E s \in SchedulerSockets : Sync(s)
  \/ \E o \in Objs, ok \in BOOLEAN, hasData \in BOOLEAN : LoadDone(o, ok, hasData)
  \/ \E o \in Objs : TimerFire(o)
  \/ \E o \in Objs, i \in 1..2, ok \in BOOLEAN : PersistDone(o, i, ok)

\* presence: AWARENESS frames interleaved with connects, disconnects and
\* teardowns
NextPresence ==
  \/ \E s \in Sockets : Connect(s)
  \/ \E s \in Sockets : PeerClose(s)
  \/ \E s \in Sockets : CloseEvent(s)
  \/ \E s \in Sockets, c \in ClientIds, state \in {"set", "null"}, newer \in BOOLEAN :
       Awareness(s, c, state, newer)
  \/ \E o \in Objs, renew \in BOOLEAN, outdated \in SUBSET ClientIds :
       AwarenessInterval(o, renew, outdated)
  \/ \E o \in Objs, ok \in BOOLEAN, hasData \in BOOLEAN : LoadDone(o, ok, hasData)
  \/ \E o \in Objs : TimerFire(o)
  \/ \E o \in Objs, i \in 1..2, ok \in BOOLEAN : PersistDone(o, i, ok)

SpecPresence == Init /\ [][NextPresence]_vars

\* chat: text frames interleaved with connects, disconnects and teardowns
NextChat ==
  \/ \E s \in Sockets : Connect(s)
  \/ \E s \in Sockets : PeerClose(s)
  \/ \E s \in Sockets : CloseEvent(s)
  \/ \E s \in Sockets, data \in TextFrames : Chat(s, data)
  \/ \E o \in Objs, ok \in BOOLEAN, hasData \in BOOLEAN : LoadDone(o, ok, hasData)
  \/ \E o \in Objs : TimerFire(o)
  \/ \E o \in Objs, i \in 1..2, ok \in BOOLEAN : PersistDone(o, i, ok)

SpecChat == Init /\ [][NextChat]_vars

\* binary frames that do not parse, among presence frames, connects and
\* disconnects
NextFrames ==
  \/ \E s \in Sockets : Connect(s)
  \/ \E s \in Sockets : PeerClose(s)
  \/ \E s \in Sockets : CloseEvent(s)
  \/ \E s \in Sockets, kind \in BadFrames, caught \in BOOLEAN : BinaryFrame(s, kind, caught)
  \/ \E s \in Sockets, c \in ClientIds, state \in {"set", "null"}, newer \in BOOLEAN :
       Awareness(s, c, state, newer)
  \/ \E o \in Objs, ok \in BOOLEAN, hasData \in BOOLEAN : LoadDone(o, ok, hasData)
  \/ \E o \in Objs : TimerFire(o)
  \/ \E o \in Objs, i \in 1..2, ok \in BOOLEAN : PersistDone(o, i, ok)

SpecFrames == Init /\ [][NextFrames]_vars

\* the scheduler of one Room after another, with updates and calls counted
SpecCount == InitCount /\ [][NextLive]_vars

\* upgrade requests of every kind, with disconnects, teardowns and shutdown
NextAccept ==
  \/ \E s \in Sockets, origin \in Origins, token \in Tokens, param \in RoomParams :
       Accept(s, origin, token, param)
  \/ \E s \in Sockets : PeerClose(s)
  \/ \E s \in Sockets : CloseEvent(s)
  \/ \E o \in Objs, ok \in BOOLEAN, hasData \in BOOLEAN : LoadDone(o, ok, hasData)
  \/ \E o \in Objs : TimerFire(o)
  \/ \E o \in Objs, i \in 1..2, ok \in BOOLEAN : PersistDone(o, i, ok)
  \/ Shutdown
  \/ Exit

SpecAccept == Init /\ [][NextAccept]_vars

SpecLive ==
  /\ Init /\ [][NextLive]_vars
  /\ \A o \in Objs : WF_vars(TimerFire(o))
  /\ \A o \in Objs : WF_vars(\E i \in 1..2, ok \in BOOLEAN : PersistDone(o, i, ok))

\* Rooms made by REST calls and by one connection that comes and goes; Node
\* runs every callback that is due: loads and store calls settle, armed timers
\* fire, a closing socket gets its close event
NextIdle ==
  \/ \E s \in SchedulerSockets : Connect(s)
  \/ \E s \in SchedulerSockets : PeerClose(s)
  \/ \E s \in SchedulerSockets : CloseEvent(s)
  \/ \E u \in RestUsers \ Admins : RestPermissions(u, "ue", "viewer")
  \/ \E u \in Admins : RestApprove(u)
  \/ \E o \in Objs, ok \in BOOLEAN, hasData \in BOOLEAN : LoadDone(o, ok, hasData)
  \/ \E o \in Objs : TimerFire(o)
  \/ \E o \in Objs, i \in 1..2, ok \in BOOLEAN : PersistDone(o, i, ok)

SpecIdle ==
  /\ Init /\ [][NextIdle]_vars
  /\ \A o \in Objs : WF_vars(\E ok \in BOOLEAN, hasData \in BOOLEAN : LoadDone(o, ok, hasData))
  /\ \A o \in Objs : WF_vars(TimerFire(o))
  /\ \A o \in Objs : WF_vars(\E i \in 1..2, ok \in BOOLEAN : PersistDone(o, i, ok))
  /\ \A s \in SchedulerSockets : WF_vars(CloseEvent(s))

----------------------------------------------------------------------------
(* Registry and lifecycle *)

Loading == {o \in Objs : room[o].phase = "loading"}
Live == {o \in Objs : room[o].phase = "live"}
Awaiting == {s \in Sockets : sock[s].conn = "awaiting"}
RestWaiters(o) == {i \in 1..Len(room[o].waiters) : room[o].waiters[i].kind # "sock"}

\* C1 (state part): while no Room is registered, all acquisitions share one
\* creation: at most one Room is under construction (one loadProjectState
\* running) and every caller that is still waiting waits on that creation.
C1_OneCreation ==
  /\ Cardinality(Loading) <= 1
  /\ Awaiting # {} => Loading # {}
  /\ \A o \in Loading :
       /\ pendingRooms = o
       /\ rooms = NoRoom
       /\ \A s \in Awaiting : \E i \in 1..Len(room[o].waiters) :
            room[o].waiters[i].kind = "sock" /\ room[o].waiters[i].s = s

\* C1 (step part): when the load of the Room under construction completes,
\* every caller that was waiting is handed that one Room, which is the
\* registry entry; when it throws, every waiting caller is turned away.
C1_SameRoomStep ==
  \A o \in Objs :
    room[o].phase = "loading" /\ room'[o].phase # "loading" =>
      IF room'[o].phase = "live"
        THEN /\ rooms' = o
             /\ \A s \in Awaiting : sock'[s].conn = "handled" /\ sock'[s].room = o
                                    /\ s \in room'[o].sockets
             /\ Len(resp') = Cardinality(RestWaiters(o))
             /\ \A k \in 1..Len(resp') : resp'[k].o = o
        ELSE /\ rooms' = NoRoom
             /\ \A s \in Awaiting : sock'[s].conn = "rejected"

\* C1: concurrent getOrCreateRoom calls for an id with no registered Room
\* construct one Room, run one load, and all receive that same Room object.
C1_SingleCreation == [] C1_OneCreation /\ [][C1_SameRoomStep]_vars

\* C1 witness: a load completed and handed the same Room to two sockets that
\* had both been waiting for it
C1_Witness ==
  /\ last.op = "loaded" /\ last.ok
  /\ Cardinality({s \in Sockets : out[s] # <<>> /\ sock[s].room = last.o}) >= 2

\* C2: at most one live Room (registered, not destroyed) exists for the room
\* id at any time, and the registry entry refers to it.
C2_OneLiveRoom ==
  /\ Cardinality(Live) <= 1
  /\ \A o \in Live : rooms = o

\* C3: a teardown never destroys a Room whose sockets set is non-empty.
C3_DestroyedEmpty == last.op = "destroy" => room[last.o].sockets = {}

\* C4: whenever a Room is destroyed, a persist call that started after its
\* last accepted change has completed successfully (no change is left
\* that only an older or failed persist call has seen), or no persist
\* request is pending.
C4_FlushedBeforeDestroy ==
  last.op = "destroy" => ~room[last.o].dirty \/ ~room[last.o].persistRequested

\* C5 (state part): at most one persistProjectState call is in flight per Room,
\* and persistInFlight is set exactly while one is.
C5_OneCall ==
  \A o \in Objs : /\ Len(room[o].calls) <= 1
                  /\ room[o].persistInFlight <=> Len(room[o].calls) = 1

\* C5 (step part): a flush that runs while persistInFlight is set (from a
\* timer, a teardown or shutdown) starts no store call and leaves
\* persistRequested set; a store call starts only when none is in flight.
C5_GateStep ==
  \A o \in Objs :
    /\ Len(room'[o].calls) > Len(room[o].calls) => ~room[o].persistInFlight
    /\ ( /\ room[o].persistInFlight
         /\ last'.o = o
         /\ \/ last'.op \in {"timer", "shutdown"}
            \/ last'.op = "destroy" /\ last'.s # NoSocket )
       => /\ Len(room'[o].calls) = Len(room[o].calls)
          /\ room'[o].persistRequested

\* C5: at most one persistProjectState call in flight per Room under every
\* interleaving; a flush during an in-flight persist only sets persistRequested.
C5_SinglePersist == [] C5_OneCall /\ [][C5_GateStep]_vars

\* C5 witness: a timer fired while a persist was in flight; its flush started
\* nothing and left the request pending
C5_Witness ==
  /\ last.op = "timer" /\ ~last.ok
  /\ room[last.o].persistInFlight
  /\ room[last.o].persistRequested
  /\ Len(room[last.o].calls) = 1

\* C7: every teardown performs exactly one final flush: the Room is destroyed
\* only as the continuation of a persist call its own teardown started, with
\* no persist call left running.
C7_OneFinalFlush ==
  last.op = "destroy" => last.ok /\ room[last.o].calls = <<>>

\* C8: for every accepted SYNC update from A, every other socket attached to
\* the same Room (a member of its sockets set whose connection is open)
\* receives exactly one SYNC frame and A receives none.
C8_BroadcastToOthers ==
  (last.op = "sync" /\ last.ok) =>
     /\ out[last.s] = <<>>
     /\ \A b \in room[last.o].sockets \ {last.s} :
          sock[b].ready = "OPEN" => out[b] = <<"sync">>

----------------------------------------------------------------------------
(* Scheduler progress *)

C6_Started(o) ==
  /\ last.o = o
  /\ \/ last.op = "timer" /\ last.ok
     \/ last.op = "teardown"

\* C6: while a Room is live, whenever persistRequested is set a new
\* persistProjectState call for that Room is eventually started, given that
\* armed timers fire and store calls return.
C6_RequestServed ==
  \A o \in Objs :
    (room[o].phase = "live" /\ room[o].persistRequested)
      ~> (C6_Started(o) \/ room[o].phase # "live")

\* C6 witness: a timer started a new store call for a live Room that holds
\* a change no completed call has stored, after an earlier call had ended
C6_Witness ==
  /\ last.op = "timer" /\ last.ok
  /\ room[last.o].phase = "live"
  /\ room[last.o].dirty
  /\ Len(room[last.o].calls) = 1
  /\ ~room[last.o].persistRequested

----------------------------------------------------------------------------
(* Authorization *)

C9_BelowEditor(s) ==
  LET p == room[sock[s].room].permissions[sock[s].user]
      role == IF p # NoRole THEN p ELSE tokenRole(sock[s].user)
  IN role = "viewer"

C9_DeniedStep ==
  \A s \in Sockets :
    (last'.op = "sync" /\ last'.s = s /\ C9_BelowEditor(s)) =>
      /\ room'[sock[s].room] = room[sock[s].room]
      /\ out' = [NoOut EXCEPT ![s] = <<"error">>]

\* C9: a SYNC frame from a socket whose effective role ranks below editor
\* leaves the Room (doc, timer, persistRequested) unchanged, reaches no other
\* socket, and the sender gets exactly one error frame.
C9_ViewerSyncRejected == [][C9_DeniedStep]_vars

\* C9 witness: a viewer's SYNC frame was answered with the error frame while
\* another socket was attached to the same Room
C9_Witness ==
  /\ last.op = "sync" /\ ~last.ok /\ last.u = "uv"
  /\ out[last.s] = <<"error">>
  /\ Cardinality(room[last.o].sockets) = 2

C10_Role(override, u) == IF override # NoRole THEN override ELSE tokenRole(u)

\* C10: every authorization decision (SYNC gate, permissions endpoint, approve
\* endpoint) is the one the effective role gives: the Room's override for
\* the user if there is one, else the token role.
C10_DecisionsUseEffectiveRole ==
  /\ last.op = "sync" =>
       (last.ok <=> C10_Role(room[last.o].permissions[last.u], last.u) # "viewer")
  /\ \A k \in 1..Len(resp) :
       resp[k].status \in {200, 403, 404} =>
         (resp[k].status # 403 <=> C10_Role(resp[k].seen, resp[k].u) = "admin")

\* C10 witness: a REST call by a user whose token says viewer passed the
\* admin check because the Room's override makes them admin
C10_Witness ==
  \E k \in 1..Len(resp) :
    /\ resp[k].u = "uv" /\ resp[k].seen = "admin"
    /\ resp[k].status \in {200, 404}

\* C11 (as stated): the effective role is the stronger of the token role and
\* the Room's override, so it never ranks below the token role.
C11_AtLeastToken ==
  \A o \in Objs, u \in Users :
    getRoleRank(getEffectiveRole(room[o].permissions, u)) >= getRoleRank(tokenRole(u))

\* C11 (amended): the effective role is the Room's override for the user when
\* one exists, whatever its rank, and the token role otherwise; it ranks
\* below the token role exactly when the override does.
C11_OverrideWins ==
  \A o \in Objs, u \in Users :
    LET p == room[o].permissions[u]
        e == getEffectiveRole(room[o].permissions, u)
    IN /\ p # NoRole => e = p
       /\ p = NoRole => e = tokenRole(u)
       /\ getRoleRank(e) < getRoleRank(tokenRole(u)) <=>
            (p # NoRole /\ getRoleRank(p) < getRoleRank(tokenRole(u)))

\* C11 witness: a live Room holds an override that ranks below the user's
\* token role (an editor demoted to viewer)
C11_Witness ==
  \E o \in Objs :
    /\ room[o].phase = "live"
    /\ room[o].permissions["ue"] = "viewer"
    /\ getEffectiveRole(room[o].permissions, "ue") = "viewer"

----------------------------------------------------------------------------
(* Presence *)

C12_DisconnectStep ==
  \A s \in Sockets :
    ( /\ last'.op \in {"closed", "teardown", "destroy"}
      /\ last'.s = s
      /\ sock[s].conn = "handled"
      /\ socketContexts[s]
      /\ room'[sock[s].room].phase = "live" )
    => LET o == sock[s].room IN
       /\ room'[o].presence \cap sock[s].ids = {}
       /\ out'[s] = <<>>
       /\ room[o].presence \cap sock[s].ids # {} =>
            \A b \in room'[o].sockets \ {s} :
              sock'[b].ready = "OPEN" => out'[b] = <<"awareness">>

\* C12: once the disconnect of a socket S has been handled, the presence
\* registry of S's Room (while that Room lives) holds no client id that S
\* announced, and the removal was sent as an AWARENESS frame to every other
\* open socket of the Room and not to S.
C12_PresenceRevoked == [][C12_DisconnectStep]_vars

----------------------------------------------------------------------------
(* Persist accounting *)

\* C13: after n >= 1 accepted updates and the teardown of the Room (no socket
\* joined it again), once its last persistProjectState call has returned,
\* the number of calls made for the Room lies in [1, n+1] and the store
\* holds the Room's final doc state.
C13_CallsWithinBounds ==
  ( /\ last.o # NoRoom
    /\ room[last.o].phase = "destroyed"
    /\ room[last.o].calls = <<>>
    /\ room[last.o].timers = 0
    /\ room[last.o].sockets = {}
    /\ room[last.o].updates >= 1 )
  => /\ room[last.o].persists >= 1
     /\ room[last.o].persists <= room[last.o].updates + 1
     /\ ~room[last.o].dirty

----------------------------------------------------------------------------
(* Permission changes *)

C14_CallerIsAdmin(o, u) ==
  LET p == room[o].permissions[u]
  IN (IF p # NoRole THEN p ELSE tokenRole(u)) = "admin"

\* the handler's turn on a registered Room
C14_HandlerStep ==
  (last'.op = "perm" /\ last'.o # NoRoom) =>
    LET o == last'.o
        u == last'.u
    IN IF C14_CallerIsAdmin(o, u)
         THEN /\ resp' = <<>>
              /\ \E w \in permWrites' :
                   /\ w.u = u /\ w.o = o
                   /\ room'[o].permissions[w.target] = w.role
                   /\ \A x \in Users \ {w.target} :
                        room'[o].permissions[x] = room[o].permissions[x]
         ELSE /\ Len(resp') = 1 /\ resp'[1].status = 403
              /\ room'[o].permissions = room[o].permissions
              /\ permWrites' = permWrites
              /\ store' = store

\* the turn in which the handler's setProjectPermission call ends
C14_ResponseStep ==
  last'.op = "permDone" =>
    /\ Len(resp') = 1 /\ resp'[1].status = 200
    /\ \E w \in permWrites \ permWrites' :
         store'.permissions[w.target] = w.role

\* C14: the permissions endpoint answers a non-admin caller with 403 and
\* changes neither Room.perms nor the stored map; for an admin caller it
\* sets Room.perms[userId] = role, calls setProjectPermission and answers 200.
C14_PermissionsEndpoint == [][C14_HandlerStep /\ C14_ResponseStep]_vars

\* C15: once the 200 response of a permission change for user U has been
\* sent (and no later change for U is still being handled), every SYNC
\* frame from a socket of U in that Room is authorized against the role of
\* that response.
C15_AnsweredRoleGoverns ==
  (last.op = "sync" /\ room[last.o].answered[last.u] # NoRole
     /\ \A w \in permWrites : ~(w.o = last.o /\ w.target = last.u))
  => (last.ok <=> room[last.o].answered[last.u] # "viewer")

----------------------------------------------------------------------------
(* Approve endpoint *)

C16_CallerIsAdmin(o, u) ==
  LET p == room[o].permissions[u]
  IN (IF p # NoRole THEN p ELSE tokenRole(u)) = "admin"

\* the approve handler's turn on a registered Room
C16_HandlerStep ==
  (last'.op = "approve" /\ last'.o # NoRoom) =>
    LET o == last'.o
        u == last'.u
    IN /\ Len(resp') = 1
       /\ IF ~C16_CallerIsAdmin(o, u)
            THEN resp'[1].status = 403 /\ room'[o] = room[o] /\ out' = NoOut
          ELSE IF room[o].sugg = "absent"
            THEN resp'[1].status = 404 /\ room'[o] = room[o] /\ out' = NoOut
          ELSE /\ resp'[1].status = 200
               /\ room'[o].sugg = "approved"
               /\ room'[o].persistRequested /\ room'[o].persistTimer
               /\ \A b \in Sockets :
                    out'[b] = IF b \in room[o].sockets /\ sock[b].ready = "OPEN"
                                THEN <<"sync">> ELSE <<>>

\* every 200 of the approve endpoint, also one given to a caller that waited
\* for the Room to load, leaves the entry approved and a persist requested
C16_Approved ==
  \A k \in 1..Len(resp) :
    (resp[k].kind = "approve" /\ resp[k].status = 200) =>
      /\ room[resp[k].o].sugg = "approved"
      /\ room[resp[k].o].persistRequested
      /\ room[resp[k].o].persistTimer

\* C16: the approve endpoint answers 403 to a non-admin and 404 for an absent
\* suggestion, leaving the doc unchanged and scheduling no persist; otherwise
\* it marks the entry approved in one transaction (one SYNC broadcast),
\* schedules a persist and answers 200.
C16_ApproveEndpoint == [] C16_Approved /\ [][C16_HandlerStep]_vars

\* C16 witness: an admin's approve was answered 200, the entry is approved,
\* a persist timer is armed and an attached socket received the update
C16_Witness ==
  /\ last.op = "approve"
  /\ Len(resp) = 1 /\ resp[1].status = 200
  /\ room[last.o].sugg = "approved"
  /\ room[last.o].persistTimer
  /\ \E s \in Sockets : out[s] = <<"sync">>

----------------------------------------------------------------------------
(* Accepting a socket *)

\* C17: a socket whose URL lacks the token parameter or the room parameter is
\* closed with 1008 and never registered: every socket that got past the
\* accept checks, and every socket registered in a Room, presented both
\* parameters.
C17_BothParamsRequired ==
  \A s \in Sockets :
    sock[s].conn \in {"awaiting", "handled"} =>
      /\ sock[s].token # NoToken
      /\ sock[s].via = "param"

RefusalReasons ==
  {"server shutting down", "origin not allowed", "missing token", "invalid token",
   "invalid room id"}

C18_RefusedStep ==
  last'.op = "reject" =>
    LET s == last'.s IN
    /\ last'.u \in RefusalReasons
    /\ shut # "no" <=> last'.u = "server shutting down"
    /\ closeCode'[s] = IF shut # "no" THEN 1012 ELSE 1008
    /\ \A t \in Sockets \ {s} : closeCode'[t] = NoCode
    /\ rooms' = rooms
    /\ pendingRooms' = pendingRooms
    /\ socketContexts' = socketContexts
    /\ \A o \in Objs : room'[o].sockets = room[o].sockets
    /\ \A o \in Objs : room[o].phase = "unborn" => room'[o] = room[o]
    /\ sock'[s] = sock[s] /\ sock[s].conn = "new"

\* C18: a socket refused during accept is closed with 1012 when the server is
\* shutting down and with 1008 otherwise, and the refusal leaves the registry,
\* the pending-creation map, every Room's sockets set and the socket-context
\* map as they were; no Room is created for it.
C18_RefusalLeavesNoTrace == [][C18_RefusedStep]_vars

\* C18 witness: a socket with a malformed room id was refused with 1008 while
\* a live Room with a member existed, and the socket stayed unregistered.
C18_Witness ==
  /\ last.op = "reject" /\ last.u = "invalid room id"
  /\ closeCode[last.s] = 1008
  /\ \E o \in Objs : room[o].phase = "live" /\ room[o].sockets # {}
  /\ sock[last.s].conn = "new"

C19_Greeting(o) ==
  IF room'[o].presence # {} THEN <<"welcome", "sync", "awareness">>
  ELSE <<"welcome", "sync">>

C19_GreetingStep ==
  \A s \in Sockets :
    /\ sock'[s].conn \in {"new", "awaiting", "rejected"} => out'[s] = <<>>
    /\ (sock[s].conn # "handled" /\ sock'[s].conn = "handled") =>
         LET o == sock'[s].room IN
         /\ s \in room'[o].sockets
         /\ socketContexts'[s]
         /\ sock'[s].ready = "OPEN" =>
              /\ Len(out'[s]) >= Len(C19_Greeting(o))
              /\ SubSeq(out'[s], 1, Len(C19_Greeting(o))) = C19_Greeting(o)
         /\ sock'[s].ready # "OPEN" => out'[s] = <<>>

----------------------------------------------------------------------------
(* Chat *)

C20_Ink(x) == {i \in 1..Len(x) : x[i] \notin WhiteSpace}

C20_Trimmed(x) ==
  IF C20_Ink(x) = {} THEN <<>>
  ELSE SubSeq(x, Min(C20_Ink(x)), CHOOSE i \in C20_Ink(x) : \A j \in C20_Ink(x) : j <= i)

C20_ChatStep ==
  (last'.op = "chat" /\ last'.data.kind # "ping") =>
    LET s == last'.s
        o == last'.o
        d == last'.data
        valid == /\ d.kind = "json" /\ d.type = "chat" /\ d.isString
                 /\ C20_Trimmed(d.text) # <<>>
        msg == [userId |-> userOf(s), username |-> usernameOf(userOf(s)),
                text |-> C20_Trimmed(d.text)]
    IN /\ last'.ok <=> valid
       /\ out' = NoOut
       /\ valid => chatOut'[s] = <<msg>>
       /\ \A c \in Sockets :
            chatOut'[c] = IF valid /\ c \in room[o].sockets /\ sock[c].ready = "OPEN"
                            THEN <<msg>> ELSE <<>>

\* C20: a chat frame whose text is a string that is non-empty after trimming
\* is delivered as one chat message, with the sender's authenticated userId and
\* username and the trimmed text, to every open socket of the Room, the sender
\* included; a chat frame whose text is not a string or trims to empty
\* produces no message to any socket.
C20_ChatDelivery == [][C20_ChatStep]_vars

\* C20 witness: a chat text with leading whitespace and a made-up userId
\* reached both members of the Room, the sender included, trimmed and under
\* the sender's identity.
C20_Witness ==
  /\ last.op = "chat" /\ last.ok
  /\ last.data.text = <<" ", "h">> /\ last.data.from = "ua"
  /\ \A c \in Sockets :
       chatOut[c] = <<[userId |-> userOf(last.s), username |-> usernameOf(userOf(last.s)),
                       text |-> <<"h">>]>>

----------------------------------------------------------------------------
(* Shutdown *)

\* a Room record is as it was, or a finished Room left the bookkeeping
C21_RoomsKept ==
  \A o \in Objs : room'[o] = room[o] \/ (Collectable(World, o) /\ room'[o] = Unborn)

C21_NothingChanged ==
  /\ C21_RoomsKept /\ rooms' = rooms /\ pendingRooms' = pendingRooms
  /\ sock' = sock /\ socketContexts' = socketContexts
  /\ store' = store /\ permWrites' = permWrites /\ shut' = shut
  /\ out' = NoOut /\ chatOut' = NoOut

C21_AfterFlagStep ==
  shut # "no" =>
    /\ last'.op # "attach"
    /\ last'.op = "reject" =>
         /\ closeCode'[last'.s] = 1012
         /\ sock'[last'.s].conn = "new"
         /\ C21_NothingChanged
    /\ last'.op \in {"perm", "approve"} =>
         /\ Len(resp') = 1 /\ resp'[1].status = 503
         /\ closeCode' = NoCodes
         /\ C21_NothingChanged
    /\ last'.op = "signal" =>
         /\ resp' = <<>> /\ closeCode' = NoCodes
         /\ C21_NothingChanged

\* C21: once the shutting-down flag is set, every connection handled
\* afterwards is closed with 1012 and never attached to a Room, every request
\* to the permissions and approve endpoints is answered 503 without acquiring
\* a Room or changing any state, and a second shutdown signal changes nothing.
C21_DrainingRefusesWork == [][C21_AfterFlagStep]_vars

\* C21 witness: an approve request was answered 503 while the final flush of
\* a Room with an attached socket was still awaited.
C21_Witness ==
  /\ last.op = "approve"
  /\ Len(resp) = 1 /\ resp[1].status = 503
  /\ shut = "flushing"
  /\ rooms # NoRoom /\ room[rooms].sockets # {}

\* C22: on shutdown every live Room is flushed before any socket is closed
\* with 1012 and the process exits: by then no persistProjectState call is
\* running for the Room and a call that started after its last accepted update
\* has completed, also when a persist was in flight at the signal.
C22_FlushedBeforeClose ==
  shut \in {"closing", "exited"} =>
    \A o \in Objs :
      room[o].phase = "live" => room[o].calls = <<>> /\ ~room[o].dirty

----------------------------------------------------------------------------
(* Failed creation *)

C23_RestErrors(ws) == Cardinality({i \in 1..Len(ws) : ws[i].kind # "sock"})

C23_LoadThrowsStep ==
  (last'.op = "loaded" /\ ~last'.ok) =>
    LET o == last'.o
        ws == room[o].waiters
    IN /\ pendingRooms = o /\ pendingRooms' = NoRoom
       /\ rooms' = rooms /\ rooms' # o
       /\ room'[o].phase = "failed" /\ room'[o].sockets = {} /\ room'[o].waiters = <<>>
       /\ \A i \in 1..Len(ws) :
            ws[i].kind = "sock" =>
              /\ sock'[ws[i].s].conn = "rejected"
              /\ sock'[ws[i].s].ready # "OPEN"
              /\ ~socketContexts'[ws[i].s]
              /\ out'[ws[i].s] = <<>>
              /\ sock[ws[i].s].ready = "OPEN" => closeCode'[ws[i].s] = 1011
       /\ Len(resp') = C23_RestErrors(ws)
       /\ \A k \in 1..Len(resp') : resp'[k].status = 500
       /\ rooms' = NoRoom => getOrCreateRoom(rooms', pendingRooms').kind = "create"

\* C23: when loadProjectState throws during a creation, the pending entry of
\* the room id is removed, no Room enters the registry, every caller awaiting
\* the creation gets the error (a connecting socket is closed with 1011), and
\* the next getOrCreateRoom for the id starts a fresh creation.
C23_FailedCreation == [][C23_LoadThrowsStep]_vars

\* C23 witness: a creation awaited by a socket and by a REST call failed; the
\* socket was closed with 1011 and the REST call got the error.
C23_Witness ==
  /\ last.op = "loaded" /\ ~last.ok
  /\ \E s \in Sockets : closeCode[s] = 1011 /\ sock[s].conn = "rejected"
  /\ Len(resp) = 1 /\ resp[1].status = 500
  /\ pendingRooms = NoRoom /\ rooms = NoRoom

C24_StoreErrorStep ==
  (last'.op = "loaded" /\ ~last'.ok) =>
    LET o == last'.o
        ws == room[o].waiters
    IN /\ rooms' = o
       /\ room'[o].phase = "live"
       /\ room'[o].permissions = NoPerms
       /\ \A i \in 1..Len(ws) :
            (ws[i].kind = "sock" /\ sock[ws[i].s].ready = "OPEN") =>
              /\ sock'[ws[i].s].conn = "handled"
              /\ closeCode'[ws[i].s] = NoCode

\* C24: a store error raised while loadProjectState reads or upserts project
\* records is swallowed: the load yields an empty permissions map, the Room is
\* created and registered, and the connecting socket is accepted, not closed.
C24_StoreErrorSwallowed == [][C24_StoreErrorStep]_vars

----------------------------------------------------------------------------
(* Store connection *)

C25_Configured == db.mongoUri # NoUri /\ db.mongoUri # ""

C25_SingleAttempt ==
  /\ db.connects <= 1
  /\ ~C25_Configured => db.connects = 0 /\ db.dbConnectionPromise \in {"null", "false"}
  /\ \A c \in Callers :
       db.caller[c].pc = "returned" =>
         /\ db.caller[c].connected <=> db.dbConnectionPromise = "true"
         /\ db.caller[c].ops > 0 => db.caller[c].connected
         /\ db.dbConnectionPromise = "false" => db.caller[c].ops = 0

C25_SettledStep ==
  db.dbConnectionPromise \in {"true", "false"} =>
    /\ db'.dbConnectionPromise = db.dbConnectionPromise
    /\ db'.connects = db.connects

\* C25: ensureDbConnection attempts the store connection at most once per
\* process, also under concurrent calls made before the attempt resolves;
\* every call returns the result of that one attempt; after a failed attempt
\* or without a configured store every later call returns false and the load,
\* persist and permission functions perform no store operation.
C25_OneConnection == [] C25_SingleAttempt /\ [][C25_SettledStep]_vars

\* C25 witness: three calls were made while the one attempt was pending, the
\* attempt failed, and a load and a persist returned without a store operation.
C25_Witness ==
  /\ db.connects = 1 /\ db.dbConnectionPromise = "false"
  /\ \A c \in Callers : db.caller[c].pc = "returned" /\ ~db.caller[c].connected
  /\ \E c \in Callers : db.caller[c].fn = "loadProjectState" /\ db.caller[c].ops = 0
  /\ \E c \in Callers : db.caller[c].fn = "persistProjectState" /\ db.caller[c].ops = 0

----------------------------------------------------------------------------
(* File paths *)

\* the walk goes on from id to its parent
C27_Follows(tree, id) ==
  /\ id # <<>> /\ nodeOf(tree, id).present /\ nodeOf(tree, id).nameIsString
  /\ nodeOf(tree, id).parentKind = "string"

\* the ids the walk looks at, in order, for at most k hops
RECURSIVE C27_Trail(_, _, _)
C27_Trail(tree, id, k) ==
  IF k = 0 \/ id = <<>> THEN <<>>
  ELSE IF C27_Follows(tree, id) THEN <<id>> \o C27_Trail(tree, tree[id].parentId, k - 1)
  ELSE <<id>>

C27_Revisits(tree, fileId) ==
  LET trail == C27_Trail(tree, fileId, Cardinality(NodeIds) + 1)
  IN \E i, j \in 1..Len(trail) : i < j /\ trail[i] = trail[j]

C27_Fallback(fileId) ==
  <<"f", "i", "l", "e", "s", "/">>
  \o (IF fileId = <<>> THEN Untitled ELSE fileId) \o <<".", "t", "x", "t">>

C27_Safe ==
  walk.pc # "none" =>
    /\ Cardinality(walk.visited) <= Cardinality(NodeIds)
    /\ Len(walk.pathSegments) <= Cardinality(walk.visited)
    /\ C27_Revisits(walk.tree, walk.fileId) =>
         /\ walk.pc # "path"
         /\ walk.pc = "stored" =>
              walk.path = <<>> /\ walk.stored = C27_Fallback(walk.fileId)

\* C27: buildFilePathFromTree terminates for every tree-node map, also when
\* the parentId links form a cycle, and returns no path whenever the walk
\* from fileId comes back to a node id; persistProjectState then stores the
\* file under files/<sanitized fileId>.txt.
C27_CycleFallsBack == [] C27_Safe /\ <>(walk.pc = "stored")

\* C27 witness: file f and folder a are each other's parent; the walk ended
\* without a path after both were visited and the row went to files/f.txt.
C27_Witness ==
  /\ walk.pc = "stored"
  /\ walk.fileId = <<"f">>
  /\ walk.tree[<<"f">>].parentKind = "string" /\ walk.tree[<<"f">>].parentId = <<"a">>
  /\ walk.tree[<<"a">>].parentKind = "string" /\ walk.tree[<<"a">>].parentId = <<"f">>
  /\ walk.visited = {<<"a">>, <<"f">>}
  /\ walk.stored = <<"f", "i", "l", "e", "s", "/", "f", ".", "t", "x", "t">>

\* the chain of ids from id up the parent links, for at most k nodes
RECURSIVE C28_Chain(_, _, _)
C28_Chain(tree, id, k) ==
  IF k = 0 \/ ~tree[id].present THEN <<>>
  ELSE IF tree[id].parentKind = "string" /\ tree[id].parentId \in NodeIds
    THEN <<id>> \o C28_Chain(tree, tree[id].parentId, k - 1)
  ELSE <<id>>

\* the chain from fileId ends at a node whose parentId is null, repeats no
\* id, and each of its nodes exists and has a string name
C28_WellFormed(tree, fileId) ==
  LET chain == C28_Chain(tree, fileId, Cardinality(NodeIds)) IN
  /\ chain # <<>>
  /\ \A i \in 1..Len(chain) : tree[chain[i]].present /\ tree[chain[i]].nameIsString
  /\ \A i, j \in 1..Len(chain) : i < j => chain[i] # chain[j]
  /\ \A i \in 1..(Len(chain) - 1) :
       tree[chain[i]].parentKind = "string" /\ tree[chain[i]].parentId = chain[i + 1]
  /\ tree[chain[Len(chain)]].parentKind = "null"

C28_Clean(name) ==
  LET ink == {i \in 1..Len(name) : name[i] \notin WhiteSpace} IN
  IF ink = {} THEN Untitled
  ELSE [i \in 1..(1 + (CHOOSE h \in ink : \A l \in ink : l <= h) - Min(ink)) |->
          IF name[Min(ink) + i - 1] \in ReservedChars THEN "_"
          ELSE name[Min(ink) + i - 1]]

\* the names of the chain, root first, each followed by '/' except the last
RECURSIVE C28_RootFirst(_, _, _)
C28_RootFirst(tree, chain, i) ==
  IF i = 0 THEN <<>>
  ELSE C28_Clean(tree[chain[i]].name)
       \o (IF i = 1 THEN <<>> ELSE <<"/">> \o C28_RootFirst(tree, chain, i - 1))

\* C28: for an acyclic tree in which every node on the chain from fileId to a
\* node with parentId null exists and has a string name, the path returned is
\* the sanitized names of that chain, root first, joined by '/': a function of
\* the chain only, whatever other nodes the tree holds and wherever the file
\* was before.
C28_PathOfChain ==
  (walk.pc = "stored" /\ C28_WellFormed(walk.tree, walk.fileId)) =>
     LET chain == C28_Chain(walk.tree, walk.fileId, Cardinality(NodeIds))
     IN walk.path = C28_RootFirst(walk.tree, chain, Len(chain))

----------------------------------------------------------------------------
(* Round trip through the store *)

\* what the round trip is to keep of a suggestion
C26_Projection(e) ==
  [fileId |-> e.fileId, creatorId |-> e.authorId, text |-> e.text, votes |-> e.votes]

\* C26: for every doc, loading into a fresh doc what persistProjectState wrote
\* restores the same file-id -> content mapping and, for every suggestion of
\* the doc, the same projection {fileId, creatorId, text, votes}.
C26_RoundTrip ==
  trip.pc = "loaded" =>
    /\ trip.loaded.files = trip.doc.files
    /\ \A id \in DOMAIN trip.doc.suggestions :
         /\ id \in DOMAIN trip.loaded.suggestions
         /\ C26_Projection(trip.loaded.suggestions[id])
              = C26_Projection(trip.doc.suggestions[id])

\* a suggestion with string fields and number votes whose text is empty went
\* through the store and did not come back
C26_EmptyTextLost ==
  /\ trip.pc = "loaded"
  /\ trip.leanMaps
  /\ \E id \in DOMAIN trip.doc.suggestions :
       /\ persistable(trip.doc.suggestions[id])
       /\ trip.doc.suggestions[id].text = ""
       /\ trip.doc.suggestions[id].fileId = "a"
       /\ trip.doc.suggestions[id].authorId = "a"
       /\ id \in DOMAIN trip.store.suggestions
       /\ id \notin DOMAIN trip.loaded.suggestions

----------------------------------------------------------------------------
(* The persist timer *)

\* the timer field of a Room and the timeouts pending for it agree
C29_TimerState(r) ==
  /\ r.timers \in {0, 1}
  /\ r.persistTimer <=> r.timers = 1
  /\ r.delay = (IF r.persistTimer THEN r.delay ELSE 0)
  /\ r.persistTimer => r.delay \in {PersistDelay, RetryDelay}

\* one step of the server seen from the Room object in slot o
C29_TimerStep(o) ==
  /\ (room[o].persistTimer /\ room'[o].persistTimer) =>
        /\ room'[o].delay = room[o].delay
        /\ room'[o].timers = room[o].timers
  /\ (~room[o].persistTimer /\ room'[o].persistTimer) =>
        /\ room'[o].persistRequested
        /\ \/ room'[o].delay = PersistDelay /\ last'.op \in {"sync", "approve", "loaded"}
           \/ /\ room'[o].delay = RetryDelay
              /\ last'.op \in {"persisted", "destroy"}
              /\ ~room'[o].persistInFlight
  /\ (last'.op = "sync" /\ last'.ok /\ last'.o = o /\ room'[o].phase # "destroyed") =>
        /\ room'[o].persistRequested
        /\ room'[o].persistTimer

\* C29: at most one persist timer is armed per Room at any time.
\* scheduleProjectPersist always sets persistRequested and arms a 1200 ms timer
\* only when none is armed, leaving an armed timer untouched; the re-arm after
\* a store call (600 ms) happens only with persistRequested set and no timer
\* armed.
C29_OneTimer ==
  [] (\A o \in Objs : C29_TimerState(room[o]))
  /\ [][\A o \in Objs : C29_TimerStep(o)]_vars

\* an update arrives while the retry timer is armed and leaves it as it is
C29_Witness ==
  /\ last.op = "sync"
  /\ last.ok
  /\ room[last.o].phase = "live"
  /\ room[last.o].persistTimer
  /\ room[last.o].delay = RetryDelay
  /\ room[last.o].persistRequested

----------------------------------------------------------------------------
(* A store call that throws *)

\* the last step was the end of a flush of Room o whose store call threw
C30_Failed(o) ==
  /\ last.o = o
  /\ \/ last.op = "persisted" /\ ~last.ok
     \/ last.op = "destroy" /\ last.u = "threw"

\* the last step started a store call for Room o
C30_Retried(o) ==
  /\ last.o = o
  /\ \/ last.op = "timer" /\ last.ok
     \/ last.op = "teardown"

\* the step in which the store call of Room o throws: the scheduler is left
\* ready for a retry, the caller of the flush goes on as after a success, and
\* no socket is sent anything or closed
C30_FailStep(o) ==
  C30_Failed(o)' =>
    /\ ~room'[o].persistInFlight
    /\ room'[o].persistRequested
    /\ room'[o].persistTimer
    /\ room'[o].timers = 1
    /\ room[o].persistTimer => room'[o].delay = room[o].delay
    /\ ~room[o].persistTimer => room'[o].delay = RetryDelay
    /\ last'.op = "destroy" => room'[o].phase = "destroyed"
    /\ last'.op = "persisted" => room'[o].phase = room[o].phase
    /\ out' = NoOut /\ chatOut' = NoOut /\ resp' = <<>> /\ closeCode' = NoCodes
    /\ sock' = sock

----------------------------------------------------------------------------
(* A disconnect that leaves other sockets in the Room *)

\* the close event of a socket with a context found the registry Room with
\* sockets left after the removal
C31_PartialLeave == last.op = "closed" /\ last.ok

C31_LeaveStep ==
  C31_PartialLeave' =>
    LET s == last'.s
        o == last'.o
    IN /\ room'[o] = [room[o] EXCEPT !.sockets = @ \ {s},
                                    !.presence = @ \ sock[s].ids,
                                    !.publisher = room'[o].publisher]
       /\ room'[o].sockets # {}
       /\ socketContexts' = [socketContexts EXCEPT ![s] = FALSE]
       /\ rooms' = rooms /\ rooms = o
       /\ pendingRooms' = pendingRooms
       /\ store' = store
       /\ \A p \in Objs \ {o} :
            room'[p] = room[p] \/ (Collectable(World, p) /\ room'[p] = Unborn)

\* C31: a disconnect that leaves Room.sockets non-empty changes only the
\* sockets set, the socket-context map and the presence states claimed by the
\* departing socket; doc, permissions, registry entry and scheduler state are
\* unchanged and no flush or destruction is started.
C31_OnlyMembership == [][C31_LeaveStep]_vars

\* a socket left a Room that keeps another socket while a flush of the Room
\* is requested and its timer is armed
C31_Witness ==
  /\ C31_PartialLeave
  /\ room[last.o].phase = "live"
  /\ room[last.o].sockets # {}
  /\ last.s \notin room[last.o].sockets
  /\ room[last.o].persistRequested
  /\ room[last.o].persistTimer

----------------------------------------------------------------------------
(* Binary frames that do not parse *)

\* C32: a binary frame whose payload cannot be parsed (empty frame, malformed
\* AWARENESS header, malformed SYNC update) is dropped silently: doc, presence
\* registry, claimed client ids and membership are unchanged, no frame is sent
\* to any socket, and the socket and the server keep processing later frames.
C32_FrameStep ==
  (last'.op = "frame" /\ last'.data \in {"empty", "badAwareness", "badSync"}) =>
    /\ \A o \in Objs : room'[o] = room[o] \/ (Collectable(World, o) /\ room'[o] = Unborn)
    /\ sock' = sock
    /\ socketContexts' = socketContexts
    /\ rooms' = rooms
    /\ out' = NoOut /\ chatOut' = NoOut /\ closeCode' = NoCodes
    /\ shut' = shut

C32_DroppedSilently == [][C32_FrameStep]_vars

\* the process ended on an AWARENESS frame with a malformed header sent by a
\* socket of a live Room
C32_Crashed ==
  /\ last.op = "frame" /\ last.data = "badAwareness" /\ ~last.ok
  /\ room[last.o].phase = "live"
  /\ shut = "exited"

----------------------------------------------------------------------------
(* A lookup that misses *)

\* the walk looked up an id that has no node
C33_Missed == \E id \in walk.visited : ~nodeOf(walk.tree, id).present

\* C33: a missing node ends the path only if a segment has been collected:
\* when the lookup of fileId itself misses there is no path, and when the
\* lookup of an ancestor misses the result is the segments collected so far,
\* root-most first, joined by '/'.
C33_MissEndsPath ==
  (walk.pc = "stored" /\ C33_Missed) =>
    IF ~walk.tree[walk.fileId].present
      THEN walk.path = <<>> /\ walk.stored = rowPath([walk EXCEPT !.pc = "null"])
    ELSE LET chain == C28_Chain(walk.tree, walk.fileId, Cardinality(NodeIds))
         IN /\ walk.path = C28_RootFirst(walk.tree, chain, Len(chain))
            /\ walk.stored = walk.path
            /\ Len(walk.pathSegments) = Len(chain)

\* a file in a folder whose own parent has no node got the path folder/file
C33_Witness ==
  /\ walk.pc = "stored"
  /\ C33_Missed
  /\ walk.tree[walk.fileId].present
  /\ Len(walk.pathSegments) = 2
  /\ walk.path = walk.pathSegments[2] \o <<"/">> \o walk.pathSegments[1]
  /\ DanglingId \in walk.visited

----------------------------------------------------------------------------
(* Room ids *)

\* C34: every key of the room registry and of the pending-creation map
\* matches [A-Za-z0-9_-]{1,64}, whichever path created the Room: a socket
\* connect or a REST call to the permissions or approve endpoint.
C34_ValidKeys ==
  \A id \in reg.rooms \cup reg.pendingRooms : isValidRoomId(id)

\* a Room is registered under an id of 65 characters
C34_LongKey == LongId \in reg.rooms

----------------------------------------------------------------------------
(* Sockets that have closed *)

\* C35: once the close (or error) event of a socket has occurred, the socket
\* is a member of no Room.sockets set and has no SocketContext, in every later
\* state, also when it closed while its getOrCreateRoom call was awaiting the
\* load of the Room.
C35_ClosedIsGone ==
  \A s \in Sockets :
    sock[s].ready = "CLOSED" =>
      /\ ~socketContexts[s]
      /\ \A o \in Objs : s \notin room[o].sockets

\* a socket whose close event came during the load is registered in the live
\* Room of the registry and has a context
C35_ClosedAttached ==
  \E s \in Sockets :
    /\ sock[s].ready = "CLOSED"
    /\ socketContexts[s]
    /\ rooms # NoRoom /\ room[rooms].phase = "live" /\ s \in room[rooms].sockets
    /\ last.op = "loaded"

----------------------------------------------------------------------------
(* Rooms without sockets *)

\* C36: every Room of the registry whose sockets set is empty is eventually
\* destroyed and removed from the registry (unless a socket joins it first),
\* also a Room that a REST call created and no socket ever joined.
C36_IdleRoomGoes ==
  \A o \in Objs :
    (rooms = o /\ room[o].phase = "live" /\ room[o].sockets = {})
      ~> (room[o].phase = "destroyed" \/ rooms # o \/ room[o].sockets # {})

\* the registry holds a live Room without sockets that a REST call created:
\* the load has just completed, the call was answered, and no timer, store
\* call or waiter is left that could start a teardown
C36_IdleForever ==
  /\ rooms # NoRoom
  /\ last.op = "loaded" /\ last.o = rooms
  /\ room[rooms].phase = "live"
  /\ room[rooms].sockets = {}
  /\ room[rooms].timers = 0 /\ room[rooms].calls = <<>>
  /\ resp # <<>>
  /\ \A s \in Sockets : sock[s].conn = "new"

----------------------------------------------------------------------------
(* A requested flush has something that will run it *)

\* C37: for every live Room, whenever control is back at the event loop,
\* persistRequested implies that a persist timer is armed or a persist is in
\* flight for that Room.
C37_RequestCovered ==
  \A o \in Objs :
    (room[o].phase = "live" /\ room[o].persistRequested) =>
       (room[o].persistTimer \/ room[o].persistInFlight)

\* the timer of a live Room fired while a store call was in flight: the
\* request is noted and only the call in flight is left to pick it up
C37_Witness ==
  /\ last.op = "timer" /\ ~last.ok
  /\ room[last.o].phase = "live"
  /\ room[last.o].persistRequested
  /\ room[last.o].persistInFlight
  /\ ~room[last.o].persistTimer

----------------------------------------------------------------------------
(* A destroyed Room is left alone *)

\* a destroyed Room has no timer and no store call
C38_Quiet ==
  \A o \in Objs :
    room[o].phase = "destroyed" =>
      /\ ~room[o].persistTimer
      /\ room[o].timers = 0
      /\ room[o].calls = <<>>

\* on a destroyed Room no step arms a timer, starts a store call or runs the
\* end of a teardown again
C38_Step ==
  \A o \in Objs :
    room[o].phase = "destroyed" /\ room'[o].phase = "destroyed" =>
      /\ room'[o].timers <= room[o].timers
      /\ Len(room'[o].calls) <= Len(room[o].calls)
      /\ ~(last'.op = "destroy" /\ last'.o = o)

\* C38: after a Room has been destroyed no persist timer is armed for it, no
\* persistProjectState call is in flight or later started on its doc, and its
\* teardown runs at most once.
C38_DestroyedIsFinal == []C38_Quiet /\ [][C38_Step]_vars

\* a timer armed by the end of a flush fired on a destroyed Room and started a
\* store call on its doc
C38_LateCall ==
  /\ last.op = "timer" /\ last.ok
  /\ room[last.o].phase = "destroyed"
  /\ room[last.o].calls # <<>>

\* the awaited call of a teardown returned without error on a Room that a
\* later teardown had destroyed already: it is destroyed again and, with the
\* request of the later teardown pending, the retry timer is armed on it
C38_TornDownTwice ==
  /\ last.op = "destroy" /\ last.s = NoSocket /\ last.u = "stored"
  /\ shut = "no"
  /\ room[last.o].phase = "destroyed"
  /\ room[last.o].sockets = {}
  /\ room[last.o].persistTimer

----------------------------------------------------------------------------
(* A disconnect takes only the socket's own presence states *)

\* socket b is attached to Room o before and after the step
C39_StaysAttached(b, o) ==
  /\ b \in room[o].sockets /\ b \in room'[o].sockets
  /\ socketContexts[b] /\ socketContexts'[b]
  /\ sock[b].ready = "OPEN" /\ sock'[b].ready = "OPEN"

\* the step is the close event of a socket: every state of the registry that
\* another socket, still attached, published is in the registry afterwards
C39_CloseStep ==
  (last'.op \in {"closed", "teardown", "destroy"} /\ last'.s # NoSocket) =>
     \A o \in Objs : \A c \in room[o].presence \cap ClientIds :
        LET b == room[o].publisher[c] IN
          (b # NoSocket /\ b # last'.s /\ C39_StaysAttached(b, o)) =>
             c \in room'[o].presence

\* C39: the disconnect of a socket S removes from the Room's presence registry
\* only states that S itself published; a state published by another socket
\* that is still attached remains, whatever AWARENESS frames S sent.
C39_OnlyOwnStates == [][C39_CloseStep]_vars

\* an AWARENESS frame of a socket names a client whose state another attached
\* socket published; the entry is ignored (old clock) but the id is recorded
\* in the sender's context
C39_ForeignIdRecorded ==
  /\ last.op = "awareness" /\ ~last.ok
  /\ \E c \in sock[last.s].ids :
       /\ c \in room[last.o].presence
       /\ room[last.o].publisher[c] \notin {NoSocket, last.s}
       /\ room[last.o].publisher[c] \in room[last.o].sockets

----------------------------------------------------------------------------
(* A flush touches the records of its own project only *)

\* the records of a collection that belong to another project than the one
\* being persisted are there as they were before the call
C40_Kept(before, now) ==
  \A id \in DOMAIN before :
    before[id].project_id # trip.projectId =>
      id \in DOMAIN now /\ now[id] = before[id]

\* C40: persistProjectState(R, doc) creates, updates or deletes only file and
\* suggestion records of project R: after the call every record that
\* belonged to another project P before the call is unchanged and still
\* belongs to P, even when doc holds an id equal to one of P's record ids.
C40_OnlyOwnRecords ==
  trip.pc = "returned" =>
    /\ C40_Kept(trip.before.files, trip.files)
    /\ C40_Kept(trip.before.suggestions, trip.suggestions)

\* the call returned and a file record that belonged to the other project now
\* belongs to the persisted project, with the doc's content
C40_RecordTaken ==
  /\ trip.pc = "returned"
  /\ \E id \in DOMAIN trip.before.files \cap DOMAIN trip.doc.files :
       /\ trip.before.files[id].project_id # trip.projectId
       /\ trip.files[id].project_id = trip.projectId
       /\ trip.files[id].content = trip.doc.files[id]
====
